---- MODULE Spec2Model ----
(***************************************************************************)
(* Model of the hotel booking calendar parser (app/parser.py) and of the   *)
(* HTTP layer that serves it (app/main.py).                                *)
(*                                                                         *)
(* Text is a sequence of one-character strings, so that strip, lower,      *)
(* upper and the regular expressions of the code are computed and not      *)
(* assumed.  A Cyrillic letter is written as "#" followed by its Latin     *)
(* transliteration ("#p" "#n" is the weekday abbreviation for Monday).     *)
(* A date is a triple <<year, month, day>>.                                *)
(***************************************************************************)
EXTENDS Integers, Sequences, FiniteSets, TLC

\* Python's None for an optional value: the empty tuple; a value v that is
\* present and is not itself a tuple of fixed non-zero length is Some(v)
None == <<>>

Some(v) == <<v>>

\* the value of an optional that is present
Val(o) == o[1]

\* ------------------------------------------------------------------------
\* Characters and text
\* ------------------------------------------------------------------------

UpperLetters ==
  <<"A","B","C","D","E","F","G","H","I","J","K","L","M",
    "N","O","P","Q","R","S","T","U","V","W","X","Y","Z",
    "#K","#A","#T","#E","#G","#O","#R","#I","#YA","#P","#N","#V","#S",
    "#D","#L","#M","#Y","#CH","#B","#J","#U","#F","#SOFT","#YU">>

LowerLetters ==
  <<"a","b","c","d","e","f","g","h","i","j","k","l","m",
    "n","o","p","q","r","s","t","u","v","w","x","y","z",
    "#k","#a","#t","#e","#g","#o","#r","#i","#ya","#p","#n","#v","#s",
    "#d","#l","#m","#y","#ch","#b","#j","#u","#f","#soft","#yu">>

Digits == <<"0","1","2","3","4","5","6","7","8","9">>

IndexIn(seq, ch) ==
  IF \E i \in 1..Len(seq) : seq[i] = ch
  THEN CHOOSE i \in 1..Len(seq) : seq[i] = ch
  ELSE 0

\* the letter tables as maps from a character
ToLower == [ch \in {UpperLetters[i] : i \in 1..Len(UpperLetters)} |->
              LowerLetters[IndexIn(UpperLetters, ch)]]

ToUpper == [ch \in {LowerLetters[i] : i \in 1..Len(LowerLetters)} |->
              UpperLetters[IndexIn(LowerLetters, ch)]]

DigitValue == [ch \in {Digits[i] : i \in 1..Len(Digits)} |-> IndexIn(Digits, ch) - 1]

LowerChar(ch) == IF ch \in DOMAIN ToLower THEN ToLower[ch] ELSE ch

UpperChar(ch) == IF ch \in DOMAIN ToUpper THEN ToUpper[ch] ELSE ch

IsDigit(ch) == ch \in DOMAIN DigitValue

DigitVal(ch) == DigitValue[ch]

IsSpace(ch) == ch = " "

Lower(s) == [i \in 1..Len(s) |-> LowerChar(s[i])]

Upper(s) == [i \in 1..Len(s) |-> UpperChar(s[i])]

RECURSIVE LStrip(_)
LStrip(s) == IF s # <<>> /\ IsSpace(Head(s)) THEN LStrip(Tail(s)) ELSE s

RECURSIVE RStrip(_)
RStrip(s) ==
  IF s # <<>> /\ IsSpace(s[Len(s)]) THEN RStrip(SubSeq(s, 1, Len(s) - 1)) ELSE s

Strip(s) == RStrip(LStrip(s))

AllDigits(s) == s # <<>> /\ \A i \in 1..Len(s) : IsDigit(s[i])

RECURSIVE ToInt(_)
ToInt(s) == IF s = <<>> THEN 0 ELSE 10 * ToInt(SubSeq(s, 1, Len(s) - 1)) + DigitVal(s[Len(s)])

\* str(n) of an integer n >= 0
RECURSIVE NumText(_)
NumText(n) == IF n < 10 THEN <<Digits[n + 1]>> ELSE NumText(n \div 10) \o <<Digits[(n % 10) + 1]>>

\* re.findall(r"\d+", s): the first maximal run of digits, <<>> when there is none
RECURSIVE DigitPrefix(_)
DigitPrefix(s) ==
  IF s # <<>> /\ IsDigit(Head(s)) THEN <<Head(s)>> \o DigitPrefix(Tail(s)) ELSE <<>>

RECURSIVE FirstNumber(_)
FirstNumber(s) ==
  IF s = <<>> THEN <<>>
  ELSE IF IsDigit(Head(s)) THEN DigitPrefix(s)
  ELSE FirstNumber(Tail(s))

\* s.split(sep) for a one-character separator
RECURSIVE Split(_, _)
Split(s, sep) ==
  IF \E i \in 1..Len(s) : s[i] = sep
  THEN LET i == CHOOSE k \in 1..Len(s) : s[k] = sep /\ \A j \in 1..(k - 1) : s[j] # sep
       IN <<SubSeq(s, 1, i - 1)>> \o Split(SubSeq(s, i + 1, Len(s)), sep)
  ELSE <<s>>

\* ------------------------------------------------------------------------
\* Dates
\* ------------------------------------------------------------------------

\* datetime.now() of the run: the year and the month the code falls back to
NowYear == 2025

NowMonth == 11

IsLeap(y) == (y % 4 = 0 /\ y % 100 # 0) \/ y % 400 = 0

DaysInMonth(y, m) ==
  IF m = 2 THEN (IF IsLeap(y) THEN 29 ELSE 28)
  ELSE IF m \in {4, 6, 9, 11} THEN 30 ELSE 31

\* datetime(y, m, d) raises ValueError unless this holds
ValidDate(y, m, d) == y >= 1 /\ m \in 1..12 /\ d >= 1 /\ d <= DaysInMonth(y, m)

\* d + timedelta(days=1)
AddDay(d) ==
  IF d[3] < DaysInMonth(d[1], d[2]) THEN <<d[1], d[2], d[3] + 1>>
  ELSE IF d[2] < 12 THEN <<d[1], d[2] + 1, 1>>
  ELSE <<d[1] + 1, 1, 1>>

DateLT(a, b) ==
  \/ a[1] < b[1]
  \/ a[1] = b[1] /\ a[2] < b[2]
  \/ a[1] = b[1] /\ a[2] = b[2] /\ a[3] < b[3]

DateLE(a, b) == a = b \/ DateLT(a, b)

Abs(n) == IF n < 0 THEN -n ELSE n

\* ------------------------------------------------------------------------
\* Bilingual date lexicon and date token parser
\* ------------------------------------------------------------------------

months_ru ==
  (<<"#ya","#n","#v","#a","#r","#soft">> :> 1) @@
  (<<"#ya","#n","#v">> :> 1) @@
  (<<"#f","#e","#v","#r","#a","#l","#soft">> :> 2) @@
  (<<"#f","#e","#v">> :> 2) @@
  (<<"#m","#a","#r","#t">> :> 3) @@
  (<<"#m","#a","#r">> :> 3) @@
  (<<"#a","#p","#r","#e","#l","#soft">> :> 4) @@
  (<<"#a","#p","#r">> :> 4) @@
  (<<"#m","#a","#j">> :> 5) @@
  (<<"#i","#yu","#n","#soft">> :> 6) @@
  (<<"#i","#yu","#n">> :> 6) @@
  (<<"#i","#yu","#l","#soft">> :> 7) @@
  (<<"#i","#yu","#l">> :> 7) @@
  (<<"#a","#v","#g","#u","#s","#t">> :> 8) @@
  (<<"#a","#v","#g">> :> 8) @@
  (<<"#s","#e","#n","#t","#ya","#b","#r","#soft">> :> 9) @@
  (<<"#s","#e","#n">> :> 9) @@
  (<<"#o","#k","#t","#ya","#b","#r","#soft">> :> 10) @@
  (<<"#o","#k","#t">> :> 10) @@
  (<<"#n","#o","#ya","#b","#r","#soft">> :> 11) @@
  (<<"#n","#o","#ya">> :> 11) @@
  (<<"#d","#e","#k","#a","#b","#r","#soft">> :> 12) @@
  (<<"#d","#e","#k">> :> 12)

months_en ==
  (<<"j","a","n","u","a","r","y">> :> 1) @@
  (<<"j","a","n">> :> 1) @@
  (<<"f","e","b","r","u","a","r","y">> :> 2) @@
  (<<"f","e","b">> :> 2) @@
  (<<"m","a","r","c","h">> :> 3) @@
  (<<"m","a","r">> :> 3) @@
  (<<"a","p","r","i","l">> :> 4) @@
  (<<"a","p","r">> :> 4) @@
  (<<"m","a","y">> :> 5) @@
  (<<"j","u","n","e">> :> 6) @@
  (<<"j","u","n">> :> 6) @@
  (<<"j","u","l","y">> :> 7) @@
  (<<"j","u","l">> :> 7) @@
  (<<"a","u","g","u","s","t">> :> 8) @@
  (<<"a","u","g">> :> 8) @@
  (<<"s","e","p","t","e","m","b","e","r">> :> 9) @@
  (<<"s","e","p">> :> 9) @@
  (<<"o","c","t","o","b","e","r">> :> 10) @@
  (<<"o","c","t">> :> 10) @@
  (<<"n","o","v","e","m","b","e","r">> :> 11) @@
  (<<"n","o","v">> :> 11) @@
  (<<"d","e","c","e","m","b","e","r">> :> 12) @@
  (<<"d","e","c">> :> 12)

\* _parse_month_name: month number 1..12 of a month name; 0 stands for None
\* (every caller tests the result for truth only)
MonthOf(t) ==
  IF t \in DOMAIN months_ru THEN months_ru[t]
  ELSE IF t \in DOMAIN months_en THEN months_en[t]
  ELSE 0

parse_month_name(text) == IF text = <<>> THEN 0 ELSE MonthOf(Lower(Strip(text)))

\* strptime directives: %d and %m take one or two digits, %Y exactly four
MatchD(s) == AllDigits(s) /\ Len(s) <= 2 /\ ToInt(s) \in 1..31

MatchM(s) == AllDigits(s) /\ Len(s) <= 2 /\ ToInt(s) \in 1..12

MatchY(s) == AllDigits(s) /\ Len(s) = 4

\* the date of three numbers, None when there is no such day
DateIfValid(y, m, d) == IF ValidDate(y, m, d) THEN <<y, m, d>> ELSE None

\* the first of two optional values that is not None
OrElse(a, b) == IF a # None THEN a ELSE b

FieldsDMY(p) ==
  IF Len(p) = 3 /\ MatchD(p[1]) /\ MatchM(p[2]) /\ MatchY(p[3])
  THEN DateIfValid(ToInt(p[3]), ToInt(p[2]), ToInt(p[1]))
  ELSE None

FieldsYMD(p) ==
  IF Len(p) = 3 /\ MatchY(p[1]) /\ MatchM(p[2]) /\ MatchD(p[3])
  THEN DateIfValid(ToInt(p[1]), ToInt(p[2]), ToInt(p[3]))
  ELSE None

FieldsDM(p) ==
  IF Len(p) = 2 /\ MatchD(p[1]) /\ MatchM(p[2])
  THEN DateIfValid(1900, ToInt(p[2]), ToInt(p[1]))
  ELSE None

\* datetime.strptime(s, "%d<sep>%m<sep>%Y"); None stands for ValueError
StrptimeDMY(s, sep) == FieldsDMY(Split(s, sep))

\* datetime.strptime(s, "%Y-%m-%d")
StrptimeYMD(s) == FieldsYMD(Split(s, "-"))

\* datetime.strptime(s, "%d<sep>%m"): the year defaults to 1900
StrptimeDM(s, sep) == FieldsDM(Split(s, sep))

\* the loop over the five formats: the first one that parses
FirstFormat(s) ==
  OrElse(StrptimeDMY(s, "."),
    OrElse(StrptimeDMY(s, "/"),
      OrElse(StrptimeYMD(s),
        OrElse(StrptimeDM(s, "."), StrptimeDM(s, "/")))))

\* the fallback of _parse_date: the first number of the text as a day
DateOfDay(day, month, year) ==
  IF day >= 1 /\ day <= 31 THEN DateIfValid(year, month, day) ELSE None

\* the date of a parsed format (year 1900 replaced), else of the first number
DateFromParts(parsed, numbers, month, year) ==
  IF parsed # None
  THEN (IF parsed[1] = 1900 THEN <<year, parsed[2], parsed[3]>> ELSE parsed)
  ELSE IF numbers # <<>> THEN DateOfDay(ToInt(numbers), month, year)
  ELSE None

ParseStripped(s, month, year) == DateFromParts(FirstFormat(s), FirstNumber(s), month, year)

\* _parse_date(date_str, default_month, default_year): a date or None; a
\* default that is not given is 0
parse_date(date_str, default_month, default_year) ==
  IF date_str = <<>> THEN None
  ELSE ParseStripped(Strip(date_str),
                     IF default_month # 0 THEN default_month ELSE NowMonth,
                     IF default_year = 0 THEN NowYear ELSE default_year)

\* ------------------------------------------------------------------------
\* Cell reference codec
\* ------------------------------------------------------------------------

\* the while loop of _col_index_to_letter: col_idx is 1-based here
RECURSIVE ColLetters(_, _)
ColLetters(col_idx, result) ==
  IF col_idx > 0
  THEN ColLetters((col_idx - 1) \div 26,
                  <<UpperLetters[((col_idx - 1) % 26) + 1]>> \o result)
  ELSE result

\* a variant that does not shift the 0-based index to a 1-based one
col_index_to_letter_unshifted(col_idx) == ColLetters(col_idx, <<>>)

\* _col_index_to_letter: the column letters of a 0-based column index
col_index_to_letter(col_idx) == ColLetters(col_idx + 1, <<>>)

IsAZ(ch) == IndexIn(SubSeq(UpperLetters, 1, 26), ch) > 0

\* the length of the longest prefix of s made of letters A..Z
RECURSIVE LetterPrefixLen(_)
LetterPrefixLen(s) ==
  IF s # <<>> /\ IsAZ(Head(s)) THEN 1 + LetterPrefixLen(Tail(s)) ELSE 0

RECURSIVE ColLettersToNum(_)
ColLettersToNum(s) ==
  IF s = <<>> THEN 0
  ELSE ColLettersToNum(SubSeq(s, 1, Len(s) - 1)) * 26
       + IndexIn(SubSeq(UpperLetters, 1, 26), s[Len(s)])

\* the two groups of the match: letters and digits
RowCol(letters, digits) ==
  IF letters # <<>> /\ AllDigits(digits)
  THEN <<ToInt(digits) - 1, ColLettersToNum(letters) - 1>>
  ELSE None

SplitRef(u, n) == RowCol(SubSeq(u, 1, n), SubSeq(u, n + 1, Len(u)))

UpperRef(u) == SplitRef(u, LetterPrefixLen(u))

\* _cell_to_indices: <<row_idx, col_idx>>, None stands for the ValueError of
\* a reference that does not match ^([A-Z]+)(\d+)$ after upper()
cell_to_indices(cell_ref) == UpperRef(Upper(cell_ref))

\* ------------------------------------------------------------------------
\* Grid access and dictionaries
\* ------------------------------------------------------------------------

\* data[i] and row[i] with a 0-based index i >= 0
At(seq, i) == seq[i + 1]

\* data[i] of Python for any index the code can form: a negative index
\* counts from the end of the list
PyAt(seq, i) == IF i < 0 THEN seq[Len(seq) + i + 1] ELSE seq[i + 1]

\* a dict in insertion order: a sequence of <<key, value>> with distinct keys
DictHas(d, k) == \E i \in 1..Len(d) : d[i][1] = k

DictGet(d, k) == d[CHOOSE i \in 1..Len(d) : d[i][1] = k][2]

\* d[k] = v: a key already present keeps its place
DictSet(d, k, v) ==
  IF DictHas(d, k)
  THEN [i \in 1..Len(d) |-> IF d[i][1] = k THEN <<k, v>> ELSE d[i]]
  ELSE Append(d, <<k, v>>)

DictKeys(d) == {d[i][1] : i \in 1..Len(d)}

\* ------------------------------------------------------------------------
\* Header resolver, strategy A: explicit anchor cell
\* ------------------------------------------------------------------------

day_abbrevs_ru ==
  {<<"#p","#n">>, <<"#v","#t">>, <<"#s","#r">>, <<"#ch","#t">>,
   <<"#p","#t">>, <<"#s","#b">>, <<"#v","#s">>}

day_abbrevs ==
  day_abbrevs_ru \cup
  {<<"m","o","n">>, <<"t","u","e">>, <<"w","e","d">>, <<"t","h","u">>,
   <<"f","r","i">>, <<"s","a","t">>, <<"s","u","n">>}

RECURSIVE WalkFromStartCell(_, _, _, _)
RECURSIVE WalkCell(_, _, _, _, _)
RECURSIVE WalkNext(_, _, _, _, _)

\* one column of the walk is passed: a day abbreviation keeps the date, any
\* other text is the column of current_date
WalkNext(row, col_idx, current_date, date_map, is_abbrev) ==
  WalkFromStartCell(row, col_idx + 1,
                    IF is_abbrev THEN current_date ELSE AddDay(current_date),
                    IF is_abbrev THEN date_map
                    ELSE DictSet(date_map, current_date, col_idx))

\* the walk stops at the first empty cell
WalkCell(row, col_idx, current_date, date_map, cell_str) ==
  IF cell_str = <<>> THEN date_map
  ELSE WalkNext(row, col_idx, current_date, date_map, Lower(cell_str) \in day_abbrevs)

\* the while loop of _parse_dates_from_start_cell: walks row to the right
\* from col_idx and returns the date map
WalkFromStartCell(row, col_idx, current_date, date_map) ==
  IF col_idx >= Len(row) THEN date_map
  ELSE WalkCell(row, col_idx, current_date, date_map, Strip(At(row, col_idx)))

\* the date read from the anchor cell
CellDate(row, start_col_idx) ==
  IF start_col_idx < Len(row) /\ At(row, start_col_idx) # <<>>
  THEN parse_date(Strip(At(row, start_col_idx)), 0, 0)
  ELSE None

\* a variant that reads the anchor cell only when no string is given
StartDateNoFallback(data, start_row_idx, start_col_idx, start_date_str) ==
  IF start_date_str # <<>> THEN parse_date(start_date_str, 0, 0)
  ELSE CellDate(PyAt(data, start_row_idx), start_col_idx)

\* the start date of strategy A: the given string, else the anchor cell
StartDate(data, start_row_idx, start_col_idx, start_date_str) ==
  OrElse(IF start_date_str # <<>> THEN parse_date(start_date_str, 0, 0) ELSE None,
         CellDate(PyAt(data, start_row_idx), start_col_idx))

\* the result of a walk: the header row with its dates, or nothing
HeaderAt(row_idx, date_map) ==
  IF date_map # <<>> THEN <<Some(row_idx), date_map>> ELSE <<None, <<>>>>

\* a variant whose first mapped column carries the day after the start date
WalkFromNextDay(data, idx, start_date) ==
  IF start_date = None THEN <<None, <<>>>>
  ELSE HeaderAt(idx[1], WalkFromStartCell(PyAt(data, idx[1]), idx[2],
                                          AddDay(start_date), <<>>))

\* the walk from the anchor, once the start date is known
WalkFromDate(data, idx, start_date) ==
  IF start_date = None THEN <<None, <<>>>>
  ELSE HeaderAt(idx[1], WalkFromStartCell(PyAt(data, idx[1]), idx[2], start_date, <<>>))

DatesFromIndices(data, idx, start_date_str) ==
  IF idx = None THEN <<None, <<>>>>
  ELSE IF idx[1] >= Len(data) THEN <<None, <<>>>>
  ELSE IF Len(data) + idx[1] < 0 THEN <<None, <<>>>>  \* IndexError, caught at line 403
  ELSE WalkFromDate(data, idx, StartDate(data, idx[1], idx[2], start_date_str))

\* _parse_dates_from_start_cell: <<header_row_index, date_column_map>>
parse_dates_from_start_cell(data, start_cell, start_date_str) ==
  DatesFromIndices(data, cell_to_indices(start_cell), start_date_str)

\* ------------------------------------------------------------------------
\* Header resolver, strategy B: auto-detection
\* ------------------------------------------------------------------------

Min(a, b) == IF a < b THEN a ELSE b

Max(a, b) == IF a > b THEN a ELSE b

NumberIsDay(numbers) == numbers # <<>> /\ ToInt(numbers) \in 1..31

\* the first run of digits of the cell is a day of the month
IsDayNumber(cell) == NumberIsDay(FirstNumber(cell))

\* month_count of a row: the cells from column 2 that name a month
MonthCount(row) ==
  Cardinality({c \in 2..(Min(Len(row), 100) - 1) : parse_month_name(Strip(At(row, c))) # 0})

\* day_numbers of the row two below the month row
DayNumbers(check_row) ==
  Cardinality({c \in 2..(Min(Len(check_row), 50) - 1) : IsDayNumber(Strip(At(check_row, c)))})

\* the row at which a loop over rows breaks: the first hit, None for no hit
FirstOf(hits) ==
  IF hits = {} THEN None ELSE Some(CHOOSE r \in hits : \A q \in hits : r <= q)

\* the accepted row of the first loop of _find_header_row, None when the
\* loop ends without a break
MonthRowIdx(data) ==
  FirstOf({r \in 0..(Min(15, Len(data)) - 1) :
             Len(At(data, r)) >= 3 /\ MonthCount(At(data, r)) > 0})

\* a variant that never looks two rows below the month row
DayRowNext(data, m) == IF m + 1 < Len(data) THEN Some(m + 1) ELSE None

\* day_row_idx as the first loop leaves it for month row m
DayRowBelow(data, m) ==
  IF m + 2 < Len(data)
  THEN (IF DayNumbers(At(data, m + 2)) >= 5 THEN Some(m + 2)
        ELSE IF m + 1 < Len(data) THEN Some(m + 1)
        ELSE None)
  ELSE IF m + 1 < Len(data) THEN Some(m + 1)
  ELSE None

\* abbrev_count and day_count of the second loop
IsAbbrevRu(cell_value) == Lower(cell_value) \in day_abbrevs_ru

AbbrevCount(row) ==
  Cardinality({c \in 2..(Min(Len(row), 100) - 1) : IsAbbrevRu(Strip(At(row, c)))})

CountsAsDay(cell_value) == ~IsAbbrevRu(cell_value) /\ IsDayNumber(cell_value)

DayCount(row) ==
  Cardinality({c \in 2..(Min(Len(row), 100) - 1) : CountsAsDay(Strip(At(row, c)))})

IsDayRow(day_count, abbrev_count) == day_count >= 5 /\ abbrev_count < day_count

\* the accepted row of the second loop, None when there is none
DayRowSearch(data) ==
  FirstOf({r \in 0..(Min(20, Len(data)) - 1) :
             /\ Len(At(data, r)) >= 3
             /\ IsDayRow(DayCount(At(data, r)), AbbrevCount(At(data, r)))})

\* <<month_row_idx, day_row_idx>> from the results of the two loops
HeaderRowsFrom(m, below, r) ==
  IF below # None THEN <<m, below>>
  ELSE IF r = None THEN <<m, None>>
  ELSE IF Val(r) > 0 THEN <<Some(Val(r) - 1), r>>
  ELSE <<m, r>>

HeaderRowsBelow(data, m, r) ==
  HeaderRowsFrom(m, IF m = None THEN None ELSE DayRowBelow(data, Val(m)), r)

\* <<month_row_idx, day_row_idx>> after both loops
HeaderRows(data) == HeaderRowsBelow(data, MonthRowIdx(data), DayRowSearch(data))

\* the first of two month numbers that is a month
MonthOr(month, other) == IF month # 0 THEN month ELSE other

\* the month named in a column of the month row, 0 when there is none
MonthAt(month_row, col_idx) ==
  IF col_idx < Len(month_row) THEN parse_month_name(Strip(At(month_row, col_idx))) ELSE 0

\* the backward scan of find_month_for_column: prev_col runs from col - 1
\* down to max(1, col - 100) + 1 and the first month it meets is returned
MonthBefore(month_row, prev_col, stop) ==
  IF \A c \in (stop + 1)..prev_col : MonthAt(month_row, c) = 0 THEN 0
  ELSE MonthAt(month_row,
               CHOOSE c \in (stop + 1)..prev_col :
                 /\ MonthAt(month_row, c) # 0
                 /\ \A later \in (c + 1)..prev_col : MonthAt(month_row, later) = 0)

\* find_month_for_column; 0 stands for None
find_month_for_column(month_row, col_idx) ==
  MonthOr(MonthAt(month_row, col_idx),
          MonthBefore(month_row, col_idx - 1, Max(1, col_idx - 100)))

\* the month after the roll-over, with the year; no month at all is the
\* month of today
MonthYear(cm2, cy, roll) ==
  <<IF cm2 = 0 THEN NowMonth ELSE cm2, IF roll /\ cm2 = 1 THEN cy + 1 ELSE cy>>

Rolled(cm1, cy, roll) == MonthYear(IF roll THEN (cm1 % 12) + 1 ELSE cm1, cy, roll)

\* a variant that rolls the month over in a column whose month is named too
WithCurrentNamed(month_for_col, cm1, day, cy, ld) ==
  Rolled(cm1, cy, day = 1 /\ ld # 0 /\ ld >= 28 /\ cm1 # 0)

\* day 1 after a day of 28 or more, in a column without a month of its own,
\* rolls the month over
WithCurrent(month_for_col, cm1, day, cy, ld) ==
  Rolled(cm1, cy, day = 1 /\ ld # 0 /\ ld >= 28 /\ month_for_col = 0 /\ cm1 # 0)

WithMonth(month_for_col, day, cm, cy, ld) ==
  WithCurrent(month_for_col, MonthOr(month_for_col, cm), day, cy, ld)

\* current_month and current_year after the month logic of one day column;
\* cm = 0 stands for current_month = None, ld = 0 for last_day = None
MonthYearAt(month_row, col_idx, day, cm, cy, ld) ==
  WithMonth(find_month_for_column(month_row, col_idx), day, cm, cy, ld)

\* <<current_month, current_year, last_day, date_map>> after a day column
\* whose month and year are my
DayDated(col_idx, day, my, ld, date_map) ==
  IF ValidDate(my[2], my[1], day)
  THEN <<my[1], my[2], day, DictSet(date_map, <<my[2], my[1], day>>, col_idx)>>
  ELSE <<my[1], my[2], ld, date_map>>

DayOfCell(month_row, col_idx, day, cm, cy, ld, date_map) ==
  DayDated(col_idx, day, MonthYearAt(month_row, col_idx, day, cm, cy, ld), ld, date_map)

\* the same after any column: empty cells, day abbreviations and cells
\* without a day number change nothing
DayColumn(month_row, col_idx, day_cell, cm, cy, ld, date_map) ==
  IF day_cell = <<>> \/ Lower(day_cell) \in day_abbrevs \/ ~IsDayNumber(day_cell)
  THEN <<cm, cy, ld, date_map>>
  ELSE DayOfCell(month_row, col_idx, ToInt(FirstNumber(day_cell)), cm, cy, ld, date_map)

RECURSIVE WalkDayRow(_, _, _, _, _, _, _)
RECURSIVE WalkStep(_, _, _, _)

WalkStep(day_row, month_row, col_idx, after) ==
  WalkDayRow(day_row, month_row, col_idx + 1, after[1], after[2], after[3], after[4])

\* the column walk of _find_header_row
WalkDayRow(day_row, month_row, col_idx, cm, cy, ld, date_map) ==
  IF ~(col_idx < Len(day_row) /\ col_idx < 500) THEN date_map
  ELSE WalkStep(day_row, month_row, col_idx,
                DayColumn(month_row, col_idx, Strip(At(day_row, col_idx)), cm, cy, ld,
                          date_map))

\* the header row with the dates of its walk, or nothing
HeaderFromRows(data, rows) ==
  IF rows[2] = None THEN <<None, <<>>>>
  ELSE HeaderAt(Val(rows[2]),
                WalkDayRow(At(data, Val(rows[2])),
                           IF rows[1] # None THEN At(data, Val(rows[1])) ELSE <<>>,
                           2, 0, NowYear, 0, <<>>))

\* _find_header_row: <<header_row_index, date_column_map>>
find_header_row(data) == HeaderFromRows(data, HeaderRows(data))

\* ------------------------------------------------------------------------
\* The parser object and load_calendar
\* ------------------------------------------------------------------------

EmptyMap == [k \in {} |-> <<>>]

\* HotelBookingParser.__init__: the fields of a new parser
NewParser ==
  [date_column_map  |-> <<>>,
   header_row_index |-> None,
   data_start_row   |-> None,
   merged_cells_map |-> EmptyMap,
   sheet_data       |-> None]

\* a variant that takes the end row and the end column into the rectangle
MergeCellsClosed(merge) ==
  {<<row, col>> : row \in merge.startRowIndex..merge.endRowIndex,
                  col \in merge.startColumnIndex..merge.endColumnIndex}

\* the cells of one merge rectangle (half-open in rows and columns)
MergeCells(merge) ==
  {<<row, col>> : row \in merge.startRowIndex..(merge.endRowIndex - 1),
                  col \in merge.startColumnIndex..(merge.endColumnIndex - 1)}

\* the loop over sheet.get("merges"): each covered cell is mapped to
\* <<start_row, start_col, end_row, end_col>>, a later rectangle overwrites
RECURSIVE AddMerges(_, _)
AddMerges(map, merges) ==
  IF merges = <<>> THEN map
  ELSE LET merge == Head(merges)
           rect == <<merge.startRowIndex, merge.startColumnIndex,
                     merge.endRowIndex, merge.endColumnIndex>>
           next == [k \in DOMAIN map \cup MergeCells(merge) |->
                      IF k \in MergeCells(merge) THEN rect ELSE map[k]]
       IN AddMerges(next, Tail(merges))

\* a variant that adds the merges of this load to those already mapped
MergedCellsKept(self, merges) == AddMerges(self.merged_cells_map, merges)

\* self.merged_cells_map after lines 649-666 of load_calendar
MergedCellsAfterLoad(self, merges) == AddMerges(EmptyMap, merges)

\* date_start_cell or os.getenv("DATE_START_CELL")
FinalDateStartCell(inp, environ) ==
  IF inp.date_start_cell # <<>> THEN inp.date_start_cell ELSE environ.DATE_START_CELL

\* date_start or os.getenv("DATE_START")
FinalDateStart(inp, environ) ==
  IF inp.date_start # <<>> THEN inp.date_start ELSE environ.DATE_START

\* a variant that falls back to auto-detection when the anchor gives no header
ResolveHeaderWithFallback(inp, environ) ==
  IF FinalDateStartCell(inp, environ) # <<>>
  THEN (IF parse_dates_from_start_cell(inp.data, FinalDateStartCell(inp, environ),
                                       FinalDateStart(inp, environ))[1] # None
        THEN parse_dates_from_start_cell(inp.data, FinalDateStartCell(inp, environ),
                                         FinalDateStart(inp, environ))
        ELSE find_header_row(inp.data))
  ELSE find_header_row(inp.data)

\* the header strategy load_calendar runs
ResolveHeader(inp, environ) ==
  IF FinalDateStartCell(inp, environ) # <<>>
  THEN parse_dates_from_start_cell(inp.data, FinalDateStartCell(inp, environ),
                                   FinalDateStart(inp, environ))
  ELSE find_header_row(inp.data)

\* load_calendar stops before it touches the parser: HttpError, sheet not
\* found, or no data in the sheet
FetchFails(inp) == inp.fetch # "ok" \/ inp.data = <<>>

\* the outcome of load_calendar: the parser fields it leaves and the
\* boolean it returns
Loaded(self, ok) == [self |-> self, ok |-> ok]

\* a variant that stores the grid before the header is known to be resolved
InstallHeaderGridFirst(self, hdr, data) ==
  LET resolved == [self EXCEPT !.header_row_index = hdr[1], !.date_column_map = hdr[2],
                               !.sheet_data = Some(data)]
  IN IF hdr[1] = None THEN Loaded(resolved, FALSE)
     ELSE Loaded([resolved EXCEPT !.data_start_row = Some(Val(hdr[1]) + 1)], TRUE)

\* the parser fields once the header is resolved, lines 693-699
InstallHeader(self, hdr, data) ==
  LET resolved == [self EXCEPT !.header_row_index = hdr[1], !.date_column_map = hdr[2]]
  IN IF hdr[1] = None THEN Loaded(resolved, FALSE)
     ELSE Loaded([resolved EXCEPT !.data_start_row = Some(Val(hdr[1]) + 1),
                                  !.sheet_data = Some(data)], TRUE)

\* load_calendar
load_calendar(self, inp, environ) ==
  IF FetchFails(inp) THEN Loaded(self, FALSE)
  ELSE InstallHeader([self EXCEPT !.merged_cells_map = MergedCellsAfterLoad(self, inp.merges)],
                     ResolveHeader(inp, environ), inp.data)

\* ------------------------------------------------------------------------
\* Availability engine
\* ------------------------------------------------------------------------

\* the result of a method: a returned value, or the message of the
\* ValueError it raised
Return(v) == [err |-> "", value |-> v]

Raise(e) == [err |-> e, value |-> <<>>]

\* the loop over matches of _find_date_in_calendar: best changes only for a
\* strictly smaller distance in years
RECURSIVE BestMatch(_, _, _)
BestMatch(matches, best_match, target_date) ==
  IF matches = <<>> THEN best_match
  ELSE BestMatch(Tail(matches),
                 IF Abs(Head(matches)[1] - target_date[1]) < Abs(best_match[1] - target_date[1])
                 THEN Head(matches) ELSE best_match,
                 target_date)

\* matches: the calendar dates with the month and day of the target, in
\* the order of the dict
RECURSIVE Matches(_, _)
Matches(date_column_map, target_date) ==
  IF date_column_map = <<>> THEN <<>>
  ELSE (IF /\ Head(date_column_map)[1][2] = target_date[2]
           /\ Head(date_column_map)[1][3] = target_date[3]
        THEN <<Head(date_column_map)[1]>> ELSE <<>>)
       \o Matches(Tail(date_column_map), target_date)

\* a variant that takes the first match whatever its year
BestOfFirst(matches, target_date) ==
  IF matches # <<>> THEN matches[1] ELSE None

\* the best of the matches, None when there is none
BestOf(matches, target_date) ==
  IF matches # <<>> THEN BestMatch(matches, matches[1], target_date) ELSE None

\* _find_date_in_calendar: the calendar date that stands for target_date
find_date_in_calendar(self, target_date) ==
  IF DictHas(self.date_column_map, target_date) THEN target_date
  ELSE BestOf(Matches(self.date_column_map, target_date), target_date)

\* dates_to_check: every day from check_in to check_out inclusive
RECURSIVE DatesToCheck(_, _)
DatesToCheck(current_date, check_out) ==
  IF DateLE(current_date, check_out)
  THEN <<current_date>> \o DatesToCheck(AddDay(current_date), check_out)
  ELSE <<>>

\* the entry of date_columns for one requested date
ColumnOf(self, date, found_date) ==
  IF found_date # None
  THEN <<<<date, DictGet(self.date_column_map, found_date)>>>>
  ELSE <<>>

\* date_columns: the requested dates found in the calendar, with their column
RECURSIVE DateColumns(_, _)
DateColumns(self, dates) ==
  IF dates = <<>> THEN <<>>
  ELSE ColumnOf(self, Head(dates), find_date_in_calendar(self, Head(dates)))
       \o DateColumns(self, Tail(dates))

\* the stripped text of data[actual_row][actual_col], "" outside the grid
TextAt(data, actual_row, actual_col) ==
  IF actual_row < Len(data) /\ actual_col < Len(At(data, actual_row))
  THEN Strip(At(At(data, actual_row), actual_col))
  ELSE <<>>

\* the stripped text an availability read of (row_idx, col_idx) uses: the
\* cell itself, or the start cell of the merge that covers it
CellValue(self, row_idx, col_idx) ==
  IF <<row_idx, col_idx>> \in DOMAIN self.merged_cells_map
  THEN TextAt(Val(self.sheet_data), self.merged_cells_map[<<row_idx, col_idx>>][1],
              self.merged_cells_map[<<row_idx, col_idx>>][2])
  ELSE TextAt(Val(self.sheet_data), row_idx, col_idx)

\* _is_occupied
is_occupied(cell_value) == Len(Strip(cell_value)) > 0

legend_keywords ==
  {<<"l","e","g","e","n","d">>,
   <<"#l","#e","#g","#e","#n","#d","#a">>,
   <<"#k","#a","#t","#e","#g","#o","#r","#i","#ya">>,
   <<"c","a","t","e","g","o","r","y">>}

category_labels ==
  {<<"#k","#a","#t","#e","#g","#o","#r","#i","#ya">>,
   <<"c","a","t","e","g","o","r","y">>}

room_labels ==
  {<<"#No"," ","#k","#o","#m","#n","#a","#t","#y">>,
   <<"r","o","o","m">>,
   <<"r","o","o","m"," ","n","u","m","b","e","r">>,
   <<"r","o","o","m"," ","#">>}

Category(row) == IF Len(row) > 0 THEN Strip(At(row, 0)) ELSE <<>>

RoomNumber(row) == IF Len(row) > 1 THEN Strip(At(row, 1)) ELSE <<>>

\* category and room_number are not skipped by the checks of lines 814-830
IsRoom(category, room_number) ==
  /\ category # <<>> /\ room_number # <<>>
  /\ ~(\/ (Lower(category) \in legend_keywords /\ room_number = <<>>)
       \/ Lower(room_number) \in legend_keywords)
  /\ ~(Lower(category) \in category_labels /\ Lower(room_number) \in room_labels)

\* the row is not skipped by the shape and legend checks of lines 808-830
IsRoomRow(row) == Len(row) >= 2 /\ IsRoom(Category(row), RoomNumber(row))

\* a variant that keeps a row when the filter is the beginning of its category
PassesFilterPrefix(row, category_filter) ==
  \/ category_filter = <<>>
  \/ Upper(Strip(category_filter)) = <<"A","L","L">>
  \/ /\ Len(Category(row)) >= Len(Strip(category_filter))
     /\ Lower(SubSeq(Category(row), 1, Len(Strip(category_filter))))
          = Lower(Strip(category_filter))

\* the row is not skipped by the category filter of lines 834-838
PassesFilter(row, category_filter) ==
  \/ category_filter = <<>>
  \/ Upper(Strip(category_filter)) = <<"A","L","L">>
  \/ Lower(Category(row)) = Lower(Strip(category_filter))

\* the loop over dates_to_check for one row: is_available and
\* checked_dates_count > 0
RECURSIVE FreeOnDates(_, _, _, _, _)
FreeOnDates(self, row_idx, dates, date_columns, checked) ==
  IF dates = <<>> THEN checked > 0
  ELSE IF /\ DictHas(date_columns, Head(dates))
          /\ is_occupied(CellValue(self, row_idx, DictGet(date_columns, Head(dates))))
       THEN FALSE
  ELSE FreeOnDates(self, row_idx, Tail(dates), date_columns,
                   IF DictHas(date_columns, Head(dates)) THEN checked + 1 ELSE checked)

\* end_row of get_available_rooms
EndRow(data) == Min(Len(data), 39)

\* row_idx when the row is appended to available_rooms
RowIfAvailable(self, row_idx, row, dates, date_columns, category_filter) ==
  IF /\ IsRoomRow(row)
     /\ PassesFilter(row, category_filter)
     /\ FreeOnDates(self, row_idx, dates, date_columns, 0)
  THEN <<row_idx>> ELSE <<>>

\* the loop over range(data_start_row, end_row): the rows appended to
\* available_rooms, in scan order
RECURSIVE AvailableRows(_, _, _, _, _, _)
AvailableRows(self, row_idx, end_row, dates, date_columns, category_filter) ==
  IF row_idx >= end_row THEN <<>>
  ELSE RowIfAvailable(self, row_idx, At(Val(self.sheet_data), row_idx), dates,
                      date_columns, category_filter)
       \o AvailableRows(self, row_idx + 1, end_row, dates, date_columns, category_filter)

\* the rows for the resolved columns, <<>> on the early returns of lines
\* 780-783 and 794-796
RowsForColumns(self, dates_to_check, date_columns, category_filter) ==
  IF date_columns = <<>> THEN <<>>
  ELSE IF Val(self.data_start_row) >= EndRow(Val(self.sheet_data)) THEN <<>>
  ELSE AvailableRows(self, Val(self.data_start_row), EndRow(Val(self.sheet_data)),
                     dates_to_check, date_columns, category_filter)

RowsForDates(self, dates_to_check, category_filter) ==
  IF dates_to_check = <<>> THEN <<>>
  ELSE RowsForColumns(self, dates_to_check, DateColumns(self, dates_to_check),
                      category_filter)

\* the row indices get_available_rooms reports
AvailableRowIdxs(self, check_in, check_out, category_filter) ==
  RowsForDates(self, DatesToCheck(check_in, check_out), category_filter)

RoomDict(row) == [category |-> Category(row), room |-> RoomNumber(row)]

\* available_rooms: one dict for each reported row
RoomsOf(data, idxs) == [i \in 1..Len(idxs) |-> RoomDict(At(data, idxs[i]))]

\* get_available_rooms
get_available_rooms(self, check_in, check_out, category_filter) ==
  IF self.sheet_data = None
  THEN Raise("Calendar not loaded. Call load_calendar() first.")
  ELSE Return(RoomsOf(Val(self.sheet_data),
                      AvailableRowIdxs(self, check_in, check_out, category_filter)))

\* the loop of check_room_availability from row_idx down the sheet
RECURSIVE CheckRoomFrom(_, _, _, _)
CheckRoomFrom(self, row_idx, room_number, col_idx) ==
  LET data == Val(self.sheet_data)
  IN IF row_idx >= Len(data) THEN FALSE
     ELSE IF Len(At(data, row_idx)) >= 2
             /\ Lower(RoomNumber(At(data, row_idx))) = Lower(room_number)
          THEN ~is_occupied(CellValue(self, row_idx, col_idx))
     ELSE CheckRoomFrom(self, row_idx + 1, room_number, col_idx)

\* a variant that reports a room as free on a date the calendar does not have
CheckRoomOnAnyDate(self, room_number, found_date) ==
  IF found_date = None THEN Return(TRUE)
  ELSE Return(CheckRoomFrom(self, Val(self.data_start_row), room_number,
                            DictGet(self.date_column_map, found_date)))

\* the room on the date the calendar has for the requested one
CheckRoomOn(self, room_number, found_date) ==
  IF found_date = None THEN Return(FALSE)
  ELSE Return(CheckRoomFrom(self, Val(self.data_start_row), room_number,
                            DictGet(self.date_column_map, found_date)))

\* check_room_availability
check_room_availability(self, room_number, date) ==
  IF self.sheet_data = None THEN Raise("Calendar not loaded. Call load_calendar() first.")
  ELSE CheckRoomOn(self, room_number, find_date_in_calendar(self, date))

\* Python's order of str: by code point, a prefix before its extensions
CodeOrder ==
  <<" ", "#", "-", ".", "/",
    "0","1","2","3","4","5","6","7","8","9",
    "A","B","C","D","E","F","G","H","I","J","K","L","M",
    "N","O","P","Q","R","S","T","U","V","W","X","Y","Z",
    "a","b","c","d","e","f","g","h","i","j","k","l","m",
    "n","o","p","q","r","s","t","u","v","w","x","y","z",
    "#A","#B","#V","#G","#D","#E","#I","#J","#K","#L","#M","#N","#O","#P","#R","#S","#T",
    "#U","#F","#CH","#Y","#SOFT","#YU","#YA",
    "#a","#b","#v","#g","#d","#e","#i","#j","#k","#l","#m","#n","#o","#p","#r","#s","#t",
    "#u","#f","#ch","#y","#soft","#yu","#ya",
    "#No">>

CharCode(ch) == IndexIn(CodeOrder, ch)

RECURSIVE TextLT(_, _)
TextLT(a, b) ==
  IF b = <<>> THEN FALSE
  ELSE IF a = <<>> THEN TRUE
  ELSE IF Head(a) = Head(b) THEN TextLT(Tail(a), Tail(b))
  ELSE CharCode(Head(a)) < CharCode(Head(b))

RECURSIVE SortedTexts(_)
RECURSIVE SortedDates(_)

\* the elements of a set after its least one
SortedFrom(set, least) == <<least>> \o SortedTexts(set \ {least})

\* sorted(list(set)) for a set of str
SortedTexts(set) ==
  IF set = {} THEN <<>>
  ELSE SortedFrom(set, CHOOSE x \in set : \A y \in set : x = y \/ TextLT(x, y))

DatesFrom(set, least) == <<least>> \o SortedDates(set \ {least})

\* sorted() for a set of dates
SortedDates(set) ==
  IF set = {} THEN <<>>
  ELSE DatesFrom(set, CHOOSE x \in set : \A y \in set : DateLE(x, y))

\* a variant that gives the category of each room in the order of the list
CategoriesInListOrder(available_rooms) ==
  IF available_rooms.err # "" THEN available_rooms
  ELSE Return([i \in 1..Len(available_rooms.value) |-> available_rooms.value[i].category])

\* the sorted categories of the rooms, or the exception of the room query
CategoriesOf(available_rooms) ==
  IF available_rooms.err # "" THEN available_rooms
  ELSE Return(SortedTexts({available_rooms.value[i].category :
                             i \in 1..Len(available_rooms.value)}))

\* get_available_categories
get_available_categories(self, check_in, check_out) ==
  CategoriesOf(get_available_rooms(self, check_in, check_out, <<>>))

\* text padded with zeros on the left to a width
RECURSIVE ZeroPad(_, _)
ZeroPad(text, width) == IF Len(text) >= width THEN text ELSE ZeroPad(<<"0">> \o text, width)

\* str(d) of a date: YYYY-MM-DD
StrOfDate(d) ==
  ZeroPad(NumText(d[1]), 4) \o <<"-">> \o ZeroPad(NumText(d[2]), 2) \o <<"-">>
    \o ZeroPad(NumText(d[3]), 2)

\* sorted(set(d.year for d in dates)) for sorted dates
RECURSIVE Years(_)
Years(dates) ==
  IF dates = <<>> THEN <<>>
  ELSE (IF Len(dates) > 1 /\ dates[1][1] = dates[2][1] THEN <<>> ELSE <<dates[1][1]>>)
       \o Years(Tail(dates))

\* the dict of get_calendar_info for the sorted dates
InfoOf(self, dates) ==
  [total_dates |-> Len(dates),
   date_range |-> [min_date |-> StrOfDate(dates[1]),
                   max_date |-> StrOfDate(dates[Len(dates)])],
   years |-> Years(dates),
   header_row |-> IF self.header_row_index # None
                  THEN Some(Val(self.header_row_index) + 1) ELSE None,
   data_start_row |-> IF self.data_start_row # None
                      THEN Some(Val(self.data_start_row) + 1) ELSE None,
   sample_dates |-> [i \in 1..Min(Len(dates), 10) |-> StrOfDate(dates[i])]]

\* get_calendar_info: {} is the empty tuple
get_calendar_info(self) ==
  IF self.date_column_map = <<>> THEN Return(<<>>)
  ELSE Return(InfoOf(self, SortedDates(DictKeys(self.date_column_map))))

\* ------------------------------------------------------------------------
\* HTTP layer (app/main.py)
\* ------------------------------------------------------------------------

\* the classes an exception is an instance of
ExcBases(type) ==
  IF type = "HTTPException" THEN {"HTTPException", "Exception"}
  ELSE IF type = "ValueError" THEN {"ValueError", "Exception"}
  ELSE {"Exception"}

IsInstance(exc, cls) == cls \in ExcBases(exc.type)

HTTPException(status_code, detail) ==
  [type |-> "HTTPException", status_code |-> status_code, detail |-> detail]

ValueError(detail) == [type |-> "ValueError", status_code |-> 0, detail |-> detail]

\* what the client receives; the detail of a 500 is a message followed by
\* str(e) of the exception caught, written <<message, e>>
Response(status_code, body) == [status_code |-> status_code, body |-> body]

\* the outcome of a try body: a returned response or a raised exception
Returned(resp) == [raised |-> FALSE, resp |-> resp, exc |-> <<>>]

Raised(exc) == [raised |-> TRUE, resp |-> <<>>, exc |-> exc]

\* the response for what parser.get_available_rooms returned or raised
RoomsAvailableResult(available) ==
  IF available.err # "" THEN Raised(ValueError(available.err))
  ELSE Returned(Response(200, [available_rooms |-> available.value,
                               count |-> Len(available.value)]))

\* the try body of POST /rooms/available, lines 201-226
RoomsAvailableBody(self, request) ==
  IF DateLT(request.check_out, request.check_in)
  THEN Raised(HTTPException(400, "check_out must be greater than or equal to check_in"))
  ELSE RoomsAvailableResult(get_available_rooms(self, request.check_in, request.check_out,
                                                request.category_filter))

\* the except clauses of POST /rooms/available, lines 227-234
RoomsAvailableExcept(exc) ==
  IF IsInstance(exc, "ValueError") THEN Response(400, exc.detail)
  ELSE Response(500, <<"Error getting available rooms: ", exc>>)

RoomsAvailableTry(body) ==
  IF body.raised THEN RoomsAvailableExcept(body.exc) ELSE body.resp

\* a variant that asks the parser without looking at sheet_data first
rooms_available_unguarded(p, request) ==
  IF p = None THEN Response(503, "Parser not initialized")
  ELSE RoomsAvailableTry(RoomsAvailableBody(Val(p), request))

\* POST /rooms/available
rooms_available(p, request) ==
  IF p = None THEN Response(503, "Parser not initialized")
  ELSE IF Val(p).sheet_data = None
       THEN Response(404, "Calendar not loaded. Call /calendar/load first.")
  ELSE RoomsAvailableTry(RoomsAvailableBody(Val(p), request))

RoomsCheckTry(is_available) ==
  IF is_available.err # ""
  THEN Response(500, <<"Error checking room availability: ", ValueError(is_available.err)>>)
  ELSE Response(200, [available |-> is_available.value])

\* POST /rooms/check
rooms_check(p, request) ==
  IF p = None THEN Response(503, "Parser not initialized")
  ELSE IF Val(p).sheet_data = None
       THEN Response(404, "Calendar not loaded. Call /calendar/load first.")
  ELSE RoomsCheckTry(check_room_availability(Val(p), request.room_number,
                                             request.check_date))

CategoriesTry(categories) ==
  IF categories.err # ""
  THEN Response(500, <<"Error getting available categories: ", ValueError(categories.err)>>)
  ELSE Response(200, [categories |-> categories.value])

\* POST /categories/available
categories_available(p, request) ==
  IF p = None THEN Response(503, "Parser not initialized")
  ELSE IF Val(p).sheet_data = None
       THEN Response(404, "Calendar not loaded. Call /calendar/load first.")
  ELSE CategoriesTry(get_available_categories(Val(p), request.check_in,
                                              request.check_out))

\* GET /calendar/info
calendar_info(p) ==
  IF p = None THEN Response(503, "Parser not initialized")
  ELSE IF Val(p).date_column_map = <<>>
       THEN Response(404, "Calendar not loaded. Call /calendar/load first.")
  ELSE Response(200, get_calendar_info(Val(p)).value)

\* request.spreadsheet_id or os.getenv("SPREADSHEET_ID")
SpreadsheetId(request, environ) ==
  IF request.spreadsheet_id # <<>> THEN request.spreadsheet_id ELSE environ.SPREADSHEET_ID

\* the arguments POST /calendar/load passes to parser.load_calendar, with
\* what the Sheets API then answers
LoadArgs(request, world, environ) ==
  [fetch |-> world.fetch, data |-> world.data, merges |-> world.merges,
   date_start_cell |-> IF request.date_start_cell # <<>> THEN request.date_start_cell
                       ELSE environ.DATE_START_CELL,
   date_start |-> IF request.date_start # <<>> THEN request.date_start
                  ELSE environ.DATE_START]

SpreadsheetIdRequired ==
  "spreadsheet_id is required. Provide it in request body or set SPREADSHEET_ID in environment variables."

\* the response for what parser.load_calendar returned, with the parser
\* fields it left
LoadCalendarResult(success) ==
  IF success.ok
  THEN <<Returned(Response(200, [success |-> TRUE,
                                 message |-> "Calendar loaded successfully",
                                 calendar_info |-> get_calendar_info(success.self).value])),
         success.self>>
  ELSE <<Returned(Response(200,
                           [success |-> FALSE,
                            message |-> "Failed to load calendar. Check spreadsheet ID and permissions.",
                            calendar_info |-> None])),
         success.self>>

\* the try body of POST /calendar/load, lines 111-145: the outcome and the
\* parser fields it leaves
LoadCalendarBody(self, request, world, environ) ==
  IF SpreadsheetId(request, environ) = <<>>
  THEN <<Raised(HTTPException(400, SpreadsheetIdRequired)), self>>
  ELSE LoadCalendarResult(load_calendar(self, LoadArgs(request, world, environ), environ))

\* the except clause of POST /calendar/load, lines 146-151
LoadCalendarExcept(exc) ==
  IF IsInstance(exc, "Exception") THEN Response(500, <<"Error loading calendar: ", exc>>)
  ELSE Response(exc.status_code, exc.detail)

LoadCalendarTry(body) ==
  <<IF body[1].raised THEN LoadCalendarExcept(body[1].exc) ELSE body[1].resp,
    Some(body[2])>>

\* POST /calendar/load: <<response, parser>>
calendar_load(p, request, world, environ) ==
  IF p = None THEN <<Response(503, "Parser not initialized. Check authentication credentials."), p>>
  ELSE LoadCalendarTry(LoadCalendarBody(Val(p), request, world, environ))

\* ------------------------------------------------------------------------
\* Inputs: sheets, merges, requests
\* ------------------------------------------------------------------------

\* the number of rows of the tall sheet
TallRows == 41

\* a sheet for strategy A: dates in row 1 from C1, a weekday label between
\* them, an empty cell before X; rooms, a label row and a row with no
\* category that repeats the room number of the first room
GridA ==
  <<<<<<"C","a","t","e","g","o","r","y">>, <<"R","o","o","m">>, <<"2","4",".","1","1",".","2","0","2","5">>, <<"m","o","n">>, <<"2","5",".","1","1",".","2","0","2","5">>, <<>>, <<"X">>>>,
    <<<<"D","e","l","u","x","e">>, <<"A","-","1","0","1">>, <<>>, <<>>, <<"G","u","e","s","t">>>>,
    <<<<"d","e","l","u","x","e"," ">>, <<"A","-","1","0","2">>, <<>>, <<>>, <<>>>>,
    <<<<"D","e","l","u","x","e"," ","S","u","i","t","e">>, <<"B","-","2","0","1">>, <<" ">>, <<>>, <<>>>>,
    <<<<"C","a","t","e","g","o","r","y">>, <<"R","o","o","m"," ","#">>, <<>>, <<>>, <<>>>>,
    <<<<>>, <<"a","-","1","0","1">>, <<"l","a","t","e">>, <<>>, <<>>>>>>

\* a sheet for strategy B: a month row over a row of day numbers
GridB ==
  <<<<<<>>, <<>>, <<"N","o","v">>, <<>>, <<>>, <<"D","e","c">>, <<>>>>,
    <<<<"#K","#a","#t","#e","#g","#o","#r","#i","#ya">>, <<"#No"," ","#k","#o","#m","#n","#a","#t","#y">>, <<"2","8">>, <<"2","9">>, <<"3","0">>, <<"1">>, <<"2">>>>,
    <<<<"D","e","l","u","x","e">>, <<"A","-","1","0","1">>, <<>>, <<"G","u","e","s","t">>, <<>>, <<>>, <<>>>>,
    <<<<"S","t","a","n","d","a","r","d">>, <<"C","-","3","0","1">>, <<>>, <<>>, <<>>, <<>>, <<"S","m","i","t","h">>>>>>

\* a tall sheet: the header of GridA, a room in row index 1, empty rows, and
\* from row index 37 on one free room "R<index>" per row
GridTall ==
  [i \in 1..TallRows |->
     IF i = 1 THEN GridA[1]
     ELSE IF i = 2 THEN GridA[2]
     ELSE IF i - 1 >= 37 THEN <<<<"S","t","a","n","d","a","r","d">>, <<"R">> \o NumText(i - 1), <<>>, <<>>, <<>>>>
     ELSE <<>>]

\* rows 1-2 (index), column 4: covers the cell of A-101 that holds Guest and
\* the cell of A-102 below it
MergeGuest ==
  [startRowIndex |-> 1, endRowIndex |-> 3, startColumnIndex |-> 4, endColumnIndex |-> 5]

World(fetch, data, merges) == [fetch |-> fetch, data |-> data, merges |-> merges]

\* what the Sheets API answers to one load
Worlds ==
  {World("ok", GridA, <<>>), World("ok", GridA, <<MergeGuest>>),
   World("ok", GridB, <<>>), World("ok", GridTall, <<>>),
   World("HttpError", GridA, <<>>), World("sheet not found", GridA, <<>>),
   World("ok", <<>>, <<>>)}

StartCells == {<<>>, <<"C","1">>, <<"C","9","9">>}

StartDates == {<<>>, <<"2","4",".","1","1",".","2","0","2","5">>}

LoadRequest(spreadsheet_id, date_start_cell, date_start) ==
  [spreadsheet_id |-> spreadsheet_id, date_start_cell |-> date_start_cell,
   date_start |-> date_start]

LoadRequests ==
  {LoadRequest(<<>>, <<>>, <<>>),
   LoadRequest(<<"s","h","e","e","t">>, <<>>, <<>>),
   LoadRequest(<<"s","h","e","e","t">>, <<"C","1">>, <<>>)}

\* the arguments of a direct call of load_calendar with what the API answers
LoadInput(w, date_start_cell, date_start) ==
  [fetch |-> w.fetch, data |-> w.data, merges |-> w.merges,
   date_start_cell |-> date_start_cell, date_start |-> date_start]

LoadInputs ==
  {LoadInput(w, c, d) : w \in {v \in Worlds : ~FetchFails(v)}, c \in StartCells, d \in StartDates}
  \cup {LoadInput(w, <<>>, <<>>) : w \in {v \in Worlds : FetchFails(v)}}

QueryDates == {<<2025, 11, 24>>, <<2025, 11, 25>>, <<2025, 11, 29>>}

\* no filter, a category in another case, ALL in mixed case, a padded filter
Filters ==
  {<<>>, <<"d","e","l","u","x","e">>, <<"A","l","l">>,
   <<"D","E","L","U","X","E"," ">>}

RoomNumbers == {<<"a","-","1","0","1">>, <<"R","3","9">>}

\* the process environment: nothing set, or a spreadsheet and a start cell
Environs ==
  {[SPREADSHEET_ID |-> <<>>, DATE_START_CELL |-> <<>>, DATE_START |-> <<>>],
   [SPREADSHEET_ID |-> <<"s","h","e","e","t">>, DATE_START_CELL |-> <<"C","1">>, DATE_START |-> <<>>]}

\* ------------------------------------------------------------------------
\* The state machine
\* ------------------------------------------------------------------------

VARIABLES
  phase,           \* "boot", "serving" or "stopped": the lifespan of the app
  parser,          \* the global parser of main.py: None or Some(fields)
  environ,         \* os.environ
  response,        \* the last call and what it returned
  loads_succeeded  \* history: how many loads of this parser succeeded, up to MaxLoads

vars == <<phase, parser, environ, response, loads_succeeded>>

\* the history counts up to MaxLoads and stays there
MaxLoads == 2

CountLoad(n, ok) == IF ok THEN Min(n + 1, MaxLoads) ELSE n

Answer(op, args, out) == [op |-> op, args |-> args, out |-> out]

Init ==
  /\ phase = "boot"
  /\ parser = None
  /\ environ \in Environs
  /\ response = Answer("none", <<>>, <<>>)
  /\ loads_succeeded = 0

\* lifespan, startup: HotelBookingParser() authenticates or raises
Startup(authenticated) ==
  /\ phase = "boot"
  /\ phase' = "serving"
  /\ parser' = IF authenticated THEN Some(NewParser) ELSE None
  /\ response' = Answer("startup", <<authenticated>>, <<>>)
  /\ UNCHANGED <<environ, loads_succeeded>>

\* lifespan, shutdown
Shutdown ==
  /\ phase = "serving"
  /\ phase' = "stopped"
  /\ parser' = None
  /\ loads_succeeded' = 0
  /\ response' = Answer("shutdown", <<>>, <<>>)
  /\ UNCHANGED environ

\* parser.load_calendar(...) called on the parser object
LoadCalendar(inp) ==
  /\ phase = "serving" /\ parser # None
  /\ \E success \in {load_calendar(Val(parser), inp, environ)} :
       /\ parser' = Some(success.self)
       /\ loads_succeeded' = CountLoad(loads_succeeded, success.ok)
       /\ response' = Answer("load_calendar", inp, Return(success.ok))
  /\ UNCHANGED <<phase, environ>>

\* a variant of the query that forgets the merged ranges it has read through
GetAvailableRoomsForgetful(check_in, check_out, category_filter) ==
  /\ phase = "serving" /\ parser # None
  /\ response' = Answer("get_available_rooms", <<check_in, check_out, category_filter>>,
                        get_available_rooms(Val(parser), check_in, check_out, category_filter))
  /\ parser' = Some([Val(parser) EXCEPT !.merged_cells_map = EmptyMap])
  /\ UNCHANGED <<phase, environ, loads_succeeded>>

\* parser.get_available_rooms(check_in, check_out, category_filter)
GetAvailableRooms(check_in, check_out, category_filter) ==
  /\ phase = "serving" /\ parser # None
  /\ response' = Answer("get_available_rooms", <<check_in, check_out, category_filter>>,
                        get_available_rooms(Val(parser), check_in, check_out, category_filter))
  /\ UNCHANGED <<phase, parser, environ, loads_succeeded>>

\* parser.check_room_availability(room_number, date)
CheckRoomAvailability(room_number, date) ==
  /\ phase = "serving" /\ parser # None
  /\ response' = Answer("check_room_availability", <<room_number, date>>,
                        check_room_availability(Val(parser), room_number, date))
  /\ UNCHANGED <<phase, parser, environ, loads_succeeded>>

\* parser.get_available_categories(check_in, check_out)
GetAvailableCategories(check_in, check_out) ==
  /\ phase = "serving" /\ parser # None
  /\ response' = Answer("get_available_categories", <<check_in, check_out>>,
                        get_available_categories(Val(parser), check_in, check_out))
  /\ UNCHANGED <<phase, parser, environ, loads_succeeded>>

\* parser.get_calendar_info()
GetCalendarInfo ==
  /\ phase = "serving" /\ parser # None
  /\ response' = Answer("get_calendar_info", <<>>, get_calendar_info(Val(parser)))
  /\ UNCHANGED <<phase, parser, environ, loads_succeeded>>

\* POST /calendar/load
PostCalendarLoad(request, world) ==
  /\ phase = "serving"
  /\ \E r \in {calendar_load(parser, request, world, environ)} :
       /\ parser' = r[2]
       /\ loads_succeeded' =
            CountLoad(loads_succeeded, r[1].status_code = 200 /\ r[1].body.success)
       /\ response' = Answer("POST /calendar/load", <<request, world>>, r[1])
  /\ UNCHANGED <<phase, environ>>

\* POST /rooms/available
PostRoomsAvailable(request) ==
  /\ phase = "serving"
  /\ response' = Answer("POST /rooms/available", request, rooms_available(parser, request))
  /\ UNCHANGED <<phase, parser, environ, loads_succeeded>>

\* POST /rooms/check
PostRoomsCheck(request) ==
  /\ phase = "serving"
  /\ response' = Answer("POST /rooms/check", request, rooms_check(parser, request))
  /\ UNCHANGED <<phase, parser, environ, loads_succeeded>>

\* POST /categories/available
PostCategoriesAvailable(request) ==
  /\ phase = "serving"
  /\ response' = Answer("POST /categories/available", request,
                        categories_available(parser, request))
  /\ UNCHANGED <<phase, parser, environ, loads_succeeded>>

\* GET /calendar/info
GetCalendarInfoEndpoint ==
  /\ phase = "serving"
  /\ response' = Answer("GET /calendar/info", <<>>, calendar_info(parser))
  /\ UNCHANGED <<phase, parser, environ, loads_succeeded>>

AvailabilityRequests ==
  [check_in : QueryDates, check_out : QueryDates, category_filter : Filters]

RoomCheckRequests == [room_number : RoomNumbers, check_date : QueryDates]

CategoriesRequests == [check_in : QueryDates, check_out : QueryDates]

Next ==
  \/ \E authenticated \in BOOLEAN : Startup(authenticated)
  \/ Shutdown
  \/ \E inp \in LoadInputs : LoadCalendar(inp)
  \/ \E ci \in QueryDates, co \in QueryDates, f \in Filters : GetAvailableRooms(ci, co, f)
  \/ \E r \in RoomNumbers, d \in QueryDates : CheckRoomAvailability(r, d)
  \/ \E ci \in QueryDates, co \in QueryDates : GetAvailableCategories(ci, co)
  \/ GetCalendarInfo
  \/ \E request \in LoadRequests, world \in Worlds : PostCalendarLoad(request, world)
  \/ \E request \in AvailabilityRequests : PostRoomsAvailable(request)
  \/ \E request \in RoomCheckRequests : PostRoomsCheck(request)
  \/ \E request \in CategoriesRequests : PostCategoriesAvailable(request)
  \/ GetCalendarInfoEndpoint

Spec == Init /\ [][Next]_vars

\* ------------------------------------------------------------------------
\* The helpers of the parser, each called once on an argument
\* ------------------------------------------------------------------------

\* dates of a date index: the same day of several years, and the day after
IndexDates ==
  <<<<2023, 8, 1>>, <<2024, 8, 1>>, <<2024, 8, 2>>, <<2026, 8, 1>>, <<2027, 8, 1>>>>

\* the date indexes: any of IndexDates, in ascending order, with their columns
DateIndexes ==
  {SelectSeq([i \in 1..Len(IndexDates) |-> <<IndexDates[i], i + 1>>],
             LAMBDA entry : entry[2] \in cols) : cols \in SUBSET (2..(Len(IndexDates) + 1))}

TargetDates ==
  {<<2024, 8, 1>>, <<2025, 8, 1>>, <<2025, 8, 2>>, <<2025, 8, 3>>, <<2030, 8, 1>>}

MaxRowIdx == 11

MaxColIdx == 730

\* cell references: well formed in both letter cases, row 0, and malformed
CellRefs ==
  {<<>>, <<"A","0">>, <<"A","1">>, <<"a","1">>, <<"C","7">>, <<"c","7">>, <<"A","A","1","0">>, <<"a","a","1","0">>, <<"B","0">>, <<"7","C">>, <<"A","-","1">>, <<"A","1","B">>, <<"A","0","1">>, <<"A">>, <<"7">>}

\* anchors of strategy A on the sheets GridA and GridB
AnchorCells ==
  {<<"C","1">>, <<"c","1">>, <<"A","1">>, <<"B","0">>, <<"C","0">>, <<"D","1">>, <<"E","1">>, <<"F","1">>, <<"G","1">>, <<"H","1">>, <<"C","2">>, <<"C","9","9">>, <<"1","C">>}

\* start-date strings: none, two dates, and a text that is no date
AnchorDates ==
  {<<>>, <<"2","4",".","1","1",".","2","0","2","5">>, <<"2","8",".","0","2",".","2","0","2","4">>, <<"s","o","o","n">>}

\* a month row, a row of weekday labels and the day numbers two rows below the
\* month row
GridWeekdays ==
  <<<<<<>>, <<>>, <<"N","o","v">>, <<>>, <<>>, <<"D","e","c">>, <<>>>>,
    <<<<>>, <<>>, <<"#p","#t">>, <<"#s","#b">>, <<"#v","#s">>, <<"#p","#n">>, <<"#v","#t">>>>,
    <<<<"#K","#a","#t","#e","#g","#o","#r","#i","#ya">>, <<"R","o","o","m">>, <<"2","8">>, <<"2","9">>, <<"3","0">>, <<"1">>, <<"2">>>>,
    <<<<"D","e","l","u","x","e">>, <<"A","-","1","0","1">>, <<>>, <<"G","u","e","s","t">>, <<>>, <<>>, <<>>>>>>

\* a title row with one month name above the month row
GridTitle ==
  <<<<<<"H","o","t","e","l">>, <<>>, <<"M","a","y">>, <<>>, <<>>, <<>>, <<>>>>,
    <<<<>>, <<>>, <<"N","o","v">>, <<>>, <<>>, <<"D","e","c">>, <<>>>>,
    <<<<"#K","#a","#t","#e","#g","#o","#r","#i","#ya">>, <<"R","o","o","m">>, <<"2","8">>, <<"2","9">>, <<"3","0">>, <<"1">>, <<"2">>>>,
    <<<<"D","e","l","u","x","e">>, <<"A","-","1","0","1">>, <<>>, <<"G","u","e","s","t">>, <<>>, <<>>, <<>>>>>>

\* a month row that names December and January
GridYearEnd ==
  <<<<<<>>, <<>>, <<"D","e","c">>, <<>>, <<"J","a","n">>, <<>>, <<>>>>,
    <<<<"#K","#a","#t","#e","#g","#o","#r","#i","#ya">>, <<"R","o","o","m">>, <<"3","0">>, <<"3","1">>, <<"1">>, <<"2">>, <<"3">>>>,
    <<<<"D","e","l","u","x","e">>, <<"A","-","1","0","1">>, <<>>, <<"G","u","e","s","t">>, <<>>, <<>>, <<>>>>>>

\* day numbers in the first row and no month row: two month ends
GridNoMonths ==
  <<<<<<"#K","#a","#t","#e","#g","#o","#r","#i","#ya">>, <<"R","o","o","m">>, <<"3","0">>, <<"1">>, <<"3","1">>, <<"1">>, <<"2">>>>,
    <<<<"D","e","l","u","x","e">>, <<"A","-","1","0","1">>, <<>>, <<"G","u","e","s","t">>, <<>>, <<>>, <<>>>>>>

\* a title row without months above the day numbers
GridDaysSecond ==
  <<<<<<"B","o","o","k","i","n","g">>, <<"c","a","l","e","n","d","a","r">>, <<"2","0","2","5">>, <<>>, <<>>>>,
    <<<<"#K","#a","#t","#e","#g","#o","#r","#i","#ya">>, <<"R","o","o","m">>, <<"2","8">>, <<"2","9">>, <<"3","0">>, <<"1">>, <<"2">>>>,
    <<<<"D","e","l","u","x","e">>, <<"A","-","1","0","1">>, <<>>, <<"G","u","e","s","t">>, <<>>, <<>>, <<>>>>>>

\* a month row, weekday labels and only four day numbers
GridFewDays ==
  <<<<<<>>, <<>>, <<"N","o","v">>, <<>>, <<>>, <<"D","e","c">>>>,
    <<<<>>, <<>>, <<"#p","#t">>, <<"#s","#b">>, <<"#v","#s">>, <<"#p","#n">>>>,
    <<<<"#K","#a","#t","#e","#g","#o","#r","#i","#ya">>, <<"R","o","o","m">>, <<"2","8">>, <<"2","9">>, <<"3","0">>, <<"1">>>>,
    <<<<"D","e","l","u","x","e">>, <<"A","-","1","0","1">>, <<>>, <<"G","u","e","s","t">>, <<>>, <<>>>>>>

\* a sheet that ends with its month row
GridMonthsOnly ==
  <<<<<<>>, <<>>, <<"N","o","v">>, <<>>, <<>>, <<"D","e","c">>, <<>>>>>>

\* one row with an English weekday label before each day number
GridMixedEn ==
  <<<<<<"#K","#a","#t","#e","#g","#o","#r","#i","#ya">>, <<"R","o","o","m">>, <<"m","o","n">>, <<"1">>, <<"t","u","e">>, <<"2">>, <<"w","e","d">>, <<"3">>, <<"t","h","u">>, <<"4">>, <<"f","r","i">>, <<"5">>>>,
    <<<<"D","e","l","u","x","e">>, <<"A","-","1","0","1">>, <<>>, <<"G","u","e","s","t">>, <<>>, <<>>, <<>>>>>>

\* one row with a Russian weekday label before each day number
GridMixedRu ==
  <<<<<<"#K","#a","#t","#e","#g","#o","#r","#i","#ya">>, <<"R","o","o","m">>, <<"#p","#n">>, <<"1">>, <<"#v","#t">>, <<"2">>, <<"#s","#r">>, <<"3">>, <<"#ch","#t">>, <<"4">>, <<"#p","#t">>, <<"5">>>>,
    <<<<"D","e","l","u","x","e">>, <<"A","-","1","0","1">>, <<>>, <<"G","u","e","s","t">>, <<>>, <<>>, <<>>>>>>

\* the sheets given to auto-detection
HeaderGrids ==
  {GridA, GridB, GridWeekdays, GridTitle, GridYearEnd, GridNoMonths, GridDaysSecond, GridFewDays,
   GridMonthsOnly, GridMixedEn, GridMixedRu}

\* date texts: a day with a month name in either order and language, the
\* fixed formats, a bare day, a bare month name, and a text with no date
DateTexts ==
  {<<"1","5"," ","D","e","c">>,
   <<"D","e","c"," ","1","5">>,
   <<"3"," ","m","a","r","c","h"," ","2","0","2","6">>,
   <<"1","5"," ","#d","#e","#k">>,
   <<"1","5"," ","N","o","v">>,
   <<"1","5",".","1","2",".","2","0","2","5">>,
   <<"1","5","/","1","2">>,
   <<"2","0","2","5","-","1","2","-","1","5">>,
   <<"5">>,
   <<"D","e","c">>,
   <<"n","o"," ","d","a","t","e">>}

DefaultMonths == {0, 3}

DefaultYears == {0, 2024}

PureInit ==
  /\ phase = "called"
  /\ environ \in {e \in Environs : e.SPREADSHEET_ID = <<>>}
  /\ loads_succeeded = 0
  /\ \/ \E index \in DateIndexes, target_date \in TargetDates :
          /\ parser = Some([NewParser EXCEPT !.date_column_map = index])
          /\ response = Answer("_find_date_in_calendar", <<target_date>>, <<>>)
     \/ \E row_idx \in 0..MaxRowIdx, col_idx \in 0..MaxColIdx :
          /\ parser = Some(NewParser)
          /\ response = Answer("_col_index_to_letter", <<row_idx, col_idx>>, <<>>)
     \/ \E cell_ref \in CellRefs :
          /\ parser = Some(NewParser)
          /\ response = Answer("_cell_to_indices", <<cell_ref>>, <<>>)
     \/ \E data \in {GridA, GridB}, start_cell \in AnchorCells, start_date_str \in AnchorDates :
          /\ parser = Some(NewParser)
          /\ response = Answer("_parse_dates_from_start_cell",
                               <<data, start_cell, start_date_str>>, <<>>)
     \/ \E data \in HeaderGrids :
          /\ parser = Some(NewParser)
          /\ response = Answer("_find_header_row", <<data>>, <<>>)
     \/ \E date_str \in DateTexts, default_month \in DefaultMonths,
           default_year \in DefaultYears :
          /\ parser = Some(NewParser)
          /\ response = Answer("_parse_date", <<date_str, default_month, default_year>>,
                               <<>>)

\* the call returns: out is what the helper gave
Returns(op, out) ==
  /\ phase = "called" /\ response.op = op
  /\ phase' = "returned"
  /\ response' = [response EXCEPT !.out = out]
  /\ UNCHANGED <<parser, environ, loads_succeeded>>

\* _find_date_in_calendar(target_date) and the column lookup of line 771:
\* the entry of date_columns, <<>> when the date is not found
FindDateInCalendar ==
  Returns("_find_date_in_calendar",
          ColumnOf(Val(parser), response.args[1],
                   find_date_in_calendar(Val(parser), response.args[1])))

\* _col_index_to_letter(col_idx) + str(row_idx + 1), read back by
\* _cell_to_indices
ColIndexToLetter ==
  Returns("_col_index_to_letter",
          cell_to_indices(col_index_to_letter(response.args[2])
                          \o NumText(response.args[1] + 1)))

\* _cell_to_indices(cell_ref)
CellToIndices == Returns("_cell_to_indices", cell_to_indices(response.args[1]))

\* _parse_dates_from_start_cell(data, start_cell, start_date_str)
ParseDatesFromStartCell ==
  Returns("_parse_dates_from_start_cell",
          parse_dates_from_start_cell(response.args[1], response.args[2],
                                      response.args[3]))

\* what _find_header_row leaves: the rows its two loops chose and what it
\* returns
HeaderFound(rows, header) ==
  [month_row_idx |-> rows[1], day_row_idx |-> rows[2],
   header_row_index |-> header[1], date_column_map |-> header[2]]

\* _find_header_row(data)
FindHeaderRow ==
  Returns("_find_header_row",
          HeaderFound(HeaderRows(response.args[1]), find_header_row(response.args[1])))

\* _parse_date(date_str, default_month, default_year)
ParseDate ==
  Returns("_parse_date",
          parse_date(response.args[1], response.args[2], response.args[3]))

PureNext ==
  \/ FindDateInCalendar
  \/ ColIndexToLetter
  \/ CellToIndices
  \/ ParseDatesFromStartCell
  \/ FindHeaderRow
  \/ ParseDate

PureSpec == PureInit /\ [][PureNext]_vars

\* ------------------------------------------------------------------------
\* The loops of the parser, one iteration per step
\* ------------------------------------------------------------------------

\* more columns than the cap of the header walk
WideCols == 502

\* a sheet of one row: two labels, then the days 1 .. 28 again and again
GridWide ==
  <<[i \in 1..WideCols |->
       IF i = 1 THEN <<"C","a","t","e","g","o","r","y">>
       ELSE IF i = 2 THEN <<"R","o","o","m">>
       ELSE NumText(((i - 3) % 28) + 1)]>>

LoopGrids == HeaderGrids \cup {GridWide}

\* a sheet with rows that are no rooms: a legend row with a text beside it, a
\* legend row alone, a room cell that is a legend keyword, a category of
\* blanks, two label rows and a row of one cell
GridLegend ==
  <<<<<<"C","a","t","e","g","o","r","y">>, <<"R","o","o","m">>, <<"2","4",".","1","1",".","2","0","2","5">>, <<"2","5",".","1","1",".","2","0","2","5">>>>,
    <<<<"D","e","l","u","x","e">>, <<"A","-","1","0","1">>, <<>>, <<"G","u","e","s","t">>>>,
    <<<<"L","e","g","e","n","d">>, <<"b","o","o","k","e","d">>, <<>>, <<>>>>,
    <<<<"#L","#e","#g","#e","#n","#d","#a">>, <<>>, <<>>, <<>>>>,
    <<<<"S","u","i","t","e">>, <<"L","E","G","E","N","D">>, <<>>, <<>>>>,
    <<<<" ">>, <<"C","-","1">>, <<>>, <<>>>>,
    <<<<"#K","#a","#t","#e","#g","#o","#r","#i","#ya">>, <<"#No"," ","#k","#o","#m","#n","#a","#t","#y">>, <<>>, <<>>>>,
    <<<<"C","a","t","e","g","o","r","y">>, <<"R","o","o","m"," ","n","u","m","b","e","r">>>>,
    <<<<"S","t","a","n","d","a","r","d">>>>>>

\* the sheets of the row scans, loaded from the anchor C1
LoopParsers ==
  {load_calendar(NewParser, LoadInput(w, <<"C","1">>, <<>>),
                 [SPREADSHEET_ID |-> <<>>, DATE_START_CELL |-> <<>>, DATE_START |-> <<>>]).self :
     w \in {World("ok", GridA, <<MergeGuest>>), World("ok", GridB, <<>>),
            World("ok", GridTall, <<>>), World("ok", GridLegend, <<>>)}}

\* a variant that stays where it is
SameIdx(idx) == idx

\* col_idx + 1, row_idx + 1
NextIdx(idx) == idx + 1

\* find_month_for_column for every column of the day row: what the walk
\* gets when it calls the function at a column
MonthsForColumns(data, rows) ==
  [c \in 1..Len(At(data, Val(rows[2]))) |->
     find_month_for_column(IF rows[1] # None THEN At(data, Val(rows[1])) ELSE <<>>, c - 1)]

\* the loop is entered: args holds what the loop reads, out its local
\* variables
LoopInit ==
  /\ phase = "looping"
  /\ environ \in {e \in Environs : e.SPREADSHEET_ID = <<>>}
  /\ loads_succeeded = 0
  /\ \/ \E data \in LoopGrids :
          /\ HeaderRows(data)[2] # None
          /\ parser = Some(NewParser)
          /\ response = Answer("_find_header_row",
                               <<At(data, Val(HeaderRows(data)[2])),
                                 IF HeaderRows(data)[1] # None
                                 THEN At(data, Val(HeaderRows(data)[1])) ELSE <<>>,
                                 MonthsForColumns(data, HeaderRows(data))>>,
                               <<2, 0, NowYear, 0, <<>>>>)
     \/ \E data \in {GridA, GridB}, start_cell \in AnchorCells, start_date_str \in AnchorDates :
          \E idx \in {cell_to_indices(start_cell)} :
            /\ idx # None
            /\ idx[1] < Len(data) /\ Len(data) + idx[1] >= 0
            /\ StartDate(data, idx[1], idx[2], start_date_str) # None
            /\ parser = Some(NewParser)
            /\ response = Answer("_parse_dates_from_start_cell",
                                 <<PyAt(data, idx[1]), idx[2]>>,
                                 <<idx[2], StartDate(data, idx[1], idx[2], start_date_str),
                                   <<>>>>)
     \/ \E self \in LoopParsers, check_in \in QueryDates, f \in Filters :
          /\ DateColumns(self, DatesToCheck(check_in, check_in)) # <<>>
          /\ Val(self.data_start_row) < EndRow(Val(self.sheet_data))
          /\ parser = Some(self)
          /\ response = Answer("get_available_rooms", <<DatesToCheck(check_in, check_in), f>>,
                               <<Val(self.data_start_row), <<>>>>)

\* the loop is left
LoopEnds ==
  /\ phase' = "returned"
  /\ UNCHANGED <<parser, environ, response, loads_succeeded>>

\* the loop goes round: out holds the local variables after the iteration
LoopGoes(out) ==
  /\ response' = [response EXCEPT !.out = out]
  /\ UNCHANGED <<phase, parser, environ, loads_succeeded>>

\* one pass of the while loop of _find_header_row over the day row
HeaderWalk ==
  /\ phase = "looping" /\ response.op = "_find_header_row"
  /\ \E day_row \in {response.args[1]}, col_idx \in {response.out[1]} :
       IF col_idx < Len(day_row) /\ col_idx < 500
       THEN \E day_cell \in {Strip(At(day_row, col_idx))} :
              IF day_cell = <<>> \/ Lower(day_cell) \in day_abbrevs \/ ~IsDayNumber(day_cell)
              THEN LoopGoes(<<NextIdx(col_idx), response.out[2], response.out[3],
                              response.out[4], response.out[5]>>)
              ELSE \E day \in {ToInt(FirstNumber(day_cell))},
                      month_for_col \in {response.args[3][col_idx + 1]} :
                     \E my \in {WithMonth(month_for_col, day, response.out[2],
                                           response.out[3], response.out[4])} :
                       \E after \in {DayDated(col_idx, day, my, response.out[4],
                                               response.out[5])} :
                         LoopGoes(<<NextIdx(col_idx)>> \o after)
       ELSE LoopEnds

\* one pass of the while loop of _parse_dates_from_start_cell
AnchorWalk ==
  /\ phase = "looping" /\ response.op = "_parse_dates_from_start_cell"
  /\ \E row \in {response.args[1]}, col_idx \in {response.out[1]} :
       IF col_idx >= Len(row) THEN LoopEnds
       ELSE IF Strip(At(row, col_idx)) = <<>> THEN LoopEnds
       ELSE IF Lower(Strip(At(row, col_idx))) \in day_abbrevs
       THEN LoopGoes(<<NextIdx(col_idx), response.out[2], response.out[3]>>)
       ELSE LoopGoes(<<NextIdx(col_idx), AddDay(response.out[2]),
                       DictSet(response.out[3], response.out[2], col_idx)>>)

\* one pass of the loop of get_available_rooms over the rows
RowScan ==
  /\ phase = "looping" /\ response.op = "get_available_rooms"
  /\ \E self \in {Val(parser)}, row_idx \in {response.out[1]} :
       IF row_idx < EndRow(Val(self.sheet_data))
       THEN LoopGoes(<<NextIdx(row_idx),
                       response.out[2]
                       \o RowIfAvailable(self, row_idx, At(Val(self.sheet_data), row_idx),
                                         response.args[1],
                                         DateColumns(self, response.args[1]),
                                         response.args[2])>>)
       ELSE LoopEnds

LoopNext == HeaderWalk \/ AnchorWalk \/ RowScan

\* a loop that can go round or end does so
LoopSpec == LoopInit /\ [][LoopNext]_vars /\ WF_vars(LoopNext)

\* ------------------------------------------------------------------------
\* Properties
\* ------------------------------------------------------------------------

NotLoaded == "Calendar not loaded. Call load_calendar() first."

\* the five fields of the calendar state
CalendarState(self) ==
  <<self.sheet_data, self.merged_cells_map, self.date_column_map,
    self.header_row_index, self.data_start_row>>

\* the step is a call of parser.load_calendar that got the sheet and then
\* returned False: no header row or no dates were resolved
HeaderResolutionFails ==
  /\ response'.op = "load_calendar"
  /\ response'.out = Return(FALSE)
  /\ ~FetchFails(response'.args)

\* C1: a load that fails at header resolution after an earlier load
\* succeeded keeps grid, anchor map, date index, header row and
\* data_start_row of the earlier load, so every query answers as before
C1_FailedLoadKeepsState ==
  [][(HeaderResolutionFails /\ loads_succeeded > 0)
       => CalendarState(Val(parser')) = CalendarState(Val(parser))]_vars

\* C2: while no load has succeeded, whatever loads have failed,
\* get_available_rooms, check_room_availability and get_available_categories
\* raise "Calendar not loaded" for every argument
C2_NotLoadedBeforeSuccess ==
  (parser # None /\ loads_succeeded = 0) =>
    /\ \A ci \in QueryDates, co \in QueryDates, f \in Filters :
         get_available_rooms(Val(parser), ci, co, f).err = NotLoaded
    /\ \A r \in RoomNumbers, d \in QueryDates :
         check_room_availability(Val(parser), r, d).err = NotLoaded
    /\ \A ci \in QueryDates, co \in QueryDates :
         get_available_categories(Val(parser), ci, co).err = NotLoaded

\* a query was refused after a load had got as far as mapping merged ranges
C2_Witness ==
  /\ parser # None /\ loads_succeeded = 0
  /\ Val(parser).merged_cells_map # EmptyMap
  /\ response.op \in {"get_available_rooms", "check_room_availability",
                      "get_available_categories"}
  /\ response.out.err = NotLoaded

\* C3: whenever data_start_row is set, header_row_index is set and
\* data_start_row = header_row_index + 1
C3_DataStartRowFollowsHeader ==
  (parser # None /\ Val(parser).data_start_row # None) =>
    /\ Val(parser).header_row_index # None
    /\ Val(Val(parser).data_start_row) = Val(Val(parser).header_row_index) + 1

QueryOps ==
  {"get_available_rooms", "check_room_availability", "get_available_categories",
   "get_calendar_info"}

\* C4: a query leaves grid, anchor map, date index, header row and
\* data_start_row as they were, so asking again gives the same answer
C4_QueriesKeepState ==
  [][response'.op \in QueryOps
       => CalendarState(Val(parser')) = CalendarState(Val(parser))]_vars

\* rooms were listed from a calendar that has merged ranges
C4_Witness ==
  /\ response.op = "get_available_rooms"
  /\ response.out.err = ""
  /\ response.out.value # <<>>
  /\ Val(parser).merged_cells_map # EmptyMap

\* C5: after a load that succeeds, the calendar state is what the same load
\* gives on a new parser: nothing of earlier loads is left in it
C5_LoadReplacesState ==
  [][(response'.op = "load_calendar" /\ response'.out = Return(TRUE))
       => CalendarState(Val(parser'))
            = CalendarState(load_calendar(NewParser, response'.args, environ).self)]_vars

\* a load without merged ranges succeeded on a parser that had loaded before
C5_Witness ==
  /\ loads_succeeded >= 2
  /\ response.op = "load_calendar"
  /\ response.out = Return(TRUE)
  /\ response.args.merges = <<>>

\* the last call was parser.get_available_rooms on a loaded calendar and it
\* returned a list
RoomsListed ==
  /\ response.op = "get_available_rooms"
  /\ parser # None
  /\ Val(parser).sheet_data # None
  /\ response.out.err = ""

\* the row is one of the rooms of the returned list
Listed(row) == \E k \in 1..Len(response.out.value) : response.out.value[k] = RoomDict(row)

\* the days of check_in..check_out that the calendar has a column for
ResolvedDays(self, check_in, check_out) ==
  {d \in {DatesToCheck(check_in, check_out)[i] :
            i \in 1..Len(DatesToCheck(check_in, check_out))} :
     find_date_in_calendar(self, d) # None}

\* the text, read through merged ranges, of the row in the column of day d
DayCell(self, row_idx, d) ==
  CellValue(self, row_idx, DictGet(self.date_column_map, find_date_in_calendar(self, d)))

\* the row has at least one resolved day and is empty on every resolved day
FreeOnResolvedDays(self, row_idx, check_in, check_out) ==
  /\ ResolvedDays(self, check_in, check_out) # {}
  /\ \A d \in ResolvedDays(self, check_in, check_out) : DayCell(self, row_idx, d) = <<>>

\* the rows of the grid from data_start_row on
DataRows(self) == Val(self.data_start_row)..(Len(Val(self.sheet_data)) - 1)

\* C6: a room row that passes the shape and category checks is listed if and
\* only if at least one day of check_in..check_out resolves to a column and
\* the row's cell, read through merged ranges, is empty on every resolved day
C6_ListedIffFreeOnResolvedDays ==
  RoomsListed =>
    \A row_idx \in DataRows(Val(parser)) :
      (/\ IsRoomRow(At(Val(Val(parser).sheet_data), row_idx))
       /\ PassesFilter(At(Val(Val(parser).sheet_data), row_idx), response.args[3]))
      => (Listed(At(Val(Val(parser).sheet_data), row_idx))
            <=> FreeOnResolvedDays(Val(parser), row_idx, response.args[1], response.args[2]))

\* C7: every row from data_start_row to the last row of the grid is
\* examined: a room row at any such index, 39 and beyond included, that
\* passes the filter and is free on all resolved days is listed
C7_EveryDataRowExamined ==
  RoomsListed =>
    \A row_idx \in DataRows(Val(parser)) :
      (/\ IsRoomRow(At(Val(Val(parser).sheet_data), row_idx))
       /\ PassesFilter(At(Val(Val(parser).sheet_data), row_idx), response.args[3])
       /\ FreeOnResolvedDays(Val(parser), row_idx, response.args[1], response.args[2]))
      => Listed(At(Val(Val(parser).sheet_data), row_idx))

\* C8: get_available_rooms on a loaded calendar with check_out before
\* check_in raises an error and returns no list
C8_InvalidRangeRaises ==
  (/\ response.op = "get_available_rooms"
   /\ parser # None
   /\ Val(parser).sheet_data # None
   /\ DateLT(response.args[2], response.args[1]))
  => response.out.err # ""

\* C9: POST /rooms/available on a loaded calendar with check_out before
\* check_in is answered 400 with the detail of the range check
C9_InvalidRangeIs400 ==
  (/\ response.op = "POST /rooms/available"
   /\ parser # None
   /\ Val(parser).sheet_data # None
   /\ DateLT(response.args.check_out, response.args.check_in))
  => /\ response.out.status_code = 400
     /\ response.out.body = "check_out must be greater than or equal to check_in"

\* C10: POST /calendar/load without a spreadsheet_id in the request or in
\* the environment is answered 400 "spreadsheet_id is required", and the
\* parser is left as it was
C10_MissingSpreadsheetIdIs400 ==
  [][(/\ response'.op = "POST /calendar/load"
      /\ parser # None
      /\ response'.args[1].spreadsheet_id = <<>>
      /\ environ.SPREADSHEET_ID = <<>>)
     => /\ response'.out.status_code = 400
        /\ response'.out.body = SpreadsheetIdRequired
        /\ parser' = parser]_vars

QueryEndpoints ==
  {"POST /rooms/available", "POST /rooms/check", "POST /categories/available"}

\* C11: a rooms or categories endpoint answers 503 when there is no parser,
\* 404 when there is a parser and no load has succeeded since startup, and
\* anything else only after a load has succeeded
C11_EndpointsGateOnLoad ==
  response.op \in QueryEndpoints =>
    /\ parser = None => response.out.status_code = 503
    /\ (parser # None /\ loads_succeeded = 0) => response.out.status_code = 404
    /\ response.out.status_code \notin {503, 404} => (parser # None /\ loads_succeeded > 0)

\* an endpoint answered 404 after a load had failed at header resolution
C11_Witness ==
  /\ response.op \in QueryEndpoints
  /\ response.out.status_code = 404
  /\ parser # None /\ Val(parser).merged_cells_map # EmptyMap

\* what the same query returns with no filter
Unfiltered ==
  get_available_rooms(Val(parser), response.args[1], response.args[2], <<>>).value

\* the rooms of a list whose category is the text, ignoring case
OfCategory(rooms, text) ==
  SelectSeq(rooms, LAMBDA room : Lower(room.category) = Lower(text))

\* C12 as stated: the filter "" and the filter ALL in any letter case give
\* the result of no filter; any other filter keeps exactly the rooms whose
\* trimmed category equals the filter, ignoring case
C12_FilterAsGiven ==
  RoomsListed =>
    response.out.value =
      IF response.args[3] = <<>> \/ Upper(response.args[3]) = <<"A","L","L">>
      THEN Unfiltered
      ELSE OfCategory(Unfiltered, response.args[3])

\* C12 amended: the filter is trimmed before it is compared: "" and a filter
\* that trims to ALL in any letter case give the result of no filter; any
\* other filter keeps exactly the rooms whose trimmed category equals the
\* trimmed filter, ignoring case
C12_FilterTrimmed ==
  RoomsListed =>
    response.out.value =
      IF response.args[3] = <<>> \/ Upper(Strip(response.args[3])) = <<"A","L","L">>
      THEN Unfiltered
      ELSE OfCategory(Unfiltered, Strip(response.args[3]))

\* a filter in another letter case kept the rooms of its category and
\* dropped a free room of a category that begins with the same word
C12_Witness ==
  /\ RoomsListed
  /\ response.args[3] = <<"d","e","l","u","x","e">>
  /\ response.out.value # <<>>
  /\ \E i \in 1..Len(Unfiltered) :
       Unfiltered[i].category = <<"D","e","l","u","x","e"," ","S","u","i","t","e">>

Returned_(op) == phase = "returned" /\ response.op = op

\* the positions of the index whose date has the month and day of the target
SameDay(index, target_date) ==
  {i \in 1..Len(index) : /\ index[i][1][2] = target_date[2]
                          /\ index[i][1][3] = target_date[3]}

YearsApart(index, i, target_date) == Abs(index[i][1][1] - target_date[1])

\* C13: the column of the target date when that date is in the index;
\* otherwise the column of the index date with the same month and day whose
\* year is closest, the first of equally close ones; nothing only when no
\* index date has that month and day
C13_ClosestYearColumn ==
  Returned_("_find_date_in_calendar") =>
    LET index == Val(parser).date_column_map
        target_date == response.args[1]
        same == SameDay(index, target_date)
    IN IF \E i \in same : index[i][1] = target_date
       THEN \E i \in same : /\ index[i][1] = target_date
                             /\ response.out = <<<<target_date, index[i][2]>>>>
       ELSE IF same = {} THEN response.out = <<>>
       ELSE \E i \in same :
              /\ response.out = <<<<target_date, index[i][2]>>>>
              /\ \A j \in same :
                   /\ YearsApart(index, j, target_date) >= YearsApart(index, i, target_date)
                   /\ j < i => YearsApart(index, j, target_date)
                                 > YearsApart(index, i, target_date)

\* the target is in no year of the index and the closest year is not the
\* first one with that day
C13_Witness ==
  /\ Returned_("_find_date_in_calendar")
  /\ response.args[1] = <<2025, 8, 1>>
  /\ Len(Val(parser).date_column_map) >= 2
  /\ Val(parser).date_column_map[1][1] = <<2023, 8, 1>>
  /\ response.out = <<<<<<2025, 8, 1>>, 5>>>>

\* the rows from data_start_row on whose room number is the text, ignoring case
RowsOfRoom(self, room_number) ==
  {row_idx \in DataRows(self) :
     /\ Len(At(Val(self.sheet_data), row_idx)) >= 2
     /\ Lower(RoomNumber(At(Val(self.sheet_data), row_idx))) = Lower(room_number)}

FirstRowOfRoom(self, room_number) ==
  CHOOSE row_idx \in RowsOfRoom(self, room_number) :
    \A other \in RowsOfRoom(self, room_number) : row_idx <= other

\* the last call was parser.check_room_availability on a loaded calendar
RoomChecked == response.op = "check_room_availability" /\ response.out.err = ""

\* C14: check_room_availability returns false when the date does not
\* resolve or no row from data_start_row on has the room number, ignoring
\* case; otherwise true exactly when the cell of the first such row in the
\* resolved column, read through merged ranges, is empty after trimming
C14_CheckRoomReadsFirstRow ==
  RoomChecked =>
    response.out.value =
      IF \/ find_date_in_calendar(Val(parser), response.args[2]) = None
         \/ RowsOfRoom(Val(parser), response.args[1]) = {}
      THEN FALSE
      ELSE DayCell(Val(parser), FirstRowOfRoom(Val(parser), response.args[1]),
                   response.args[2]) = <<>>

\* a room asked for in lower case is in two rows: the first is free on the
\* date, the second is not
C14_Witness ==
  /\ RoomChecked
  /\ response.args[1] = <<"a","-","1","0","1">>
  /\ Cardinality(RowsOfRoom(Val(parser), response.args[1])) = 2
  /\ response.out.value = TRUE

\* the last call was parser.get_available_categories on a loaded calendar
CategoriesListed == response.op = "get_available_categories" /\ response.out.err = ""

\* C15: get_available_categories returns the categories of the rooms that
\* get_available_rooms lists for the same range with no filter, each once,
\* in ascending order
C15_CategoriesOfListedRooms ==
  CategoriesListed =>
    /\ {response.out.value[i] : i \in 1..Len(response.out.value)}
         = {Unfiltered[i].category : i \in 1..Len(Unfiltered)}
    /\ \A i \in 1..(Len(response.out.value) - 1) :
         TextLT(response.out.value[i], response.out.value[i + 1])

\* several categories were returned, one of them for more than one room
C15_Witness ==
  /\ CategoriesListed
  /\ Len(response.out.value) >= 2
  /\ Len(Unfiltered) > Len(response.out.value)

\* the cell is inside the merge rectangle, whose end row and end column are
\* outside it
Covers(merge, row, col) ==
  /\ merge.startRowIndex <= row /\ row < merge.endRowIndex
  /\ merge.startColumnIndex <= col /\ col < merge.endColumnIndex

\* the cells of the grid, to one column beyond its first row
GridCells(data) ==
  {<<row, col>> : row \in 0..(Len(data) - 1),
                  col \in 0..Len(data[1])}

\* the room of the row is in the list for the single day d
ListedOn(self, row_idx, d) ==
  \E k \in 1..Len(get_available_rooms(self, d, d, <<>>).value) :
    get_available_rooms(self, d, d, <<>>).value[k]
      = RoomDict(At(Val(self.sheet_data), row_idx))

\* the calendar after a load that succeeded: a cell inside a merge rectangle
\* reads the top-left cell of the rectangle, any other cell reads itself,
\* and a room is not listed for a date whose column, in the row of the
\* room, is covered by a merge with text in its top-left cell
ReadsThroughMerges(self, data, merges) ==
  /\ \A cell \in GridCells(data) :
       IF \E k \in 1..Len(merges) : Covers(merges[k], cell[1], cell[2])
       THEN \E k \in 1..Len(merges) :
              /\ Covers(merges[k], cell[1], cell[2])
              /\ cell \in DOMAIN self.merged_cells_map
              /\ self.merged_cells_map[cell][1] = merges[k].startRowIndex
              /\ self.merged_cells_map[cell][2] = merges[k].startColumnIndex
              /\ CellValue(self, cell[1], cell[2])
                   = TextAt(data, merges[k].startRowIndex, merges[k].startColumnIndex)
       ELSE /\ cell \notin DOMAIN self.merged_cells_map
            /\ CellValue(self, cell[1], cell[2]) = TextAt(data, cell[1], cell[2])
  /\ \A e \in 1..Len(self.date_column_map), k \in 1..Len(merges), row_idx \in DataRows(self) :
       (/\ Covers(merges[k], row_idx, self.date_column_map[e][2])
        /\ TextAt(data, merges[k].startRowIndex, merges[k].startColumnIndex) # <<>>)
       => /\ is_occupied(CellValue(self, row_idx, self.date_column_map[e][2]))
          /\ ~ListedOn(self, row_idx, self.date_column_map[e][1])

\* C16: after a load, every cell inside a half-open merge rectangle maps to
\* the top-left cell of the rectangle and a cell in no rectangle reads
\* itself, so a room is occupied on every date column covered by a merge
\* whose top-left cell holds text
C16_MergedCellsReadTopLeft ==
  [][(response'.op = "load_calendar" /\ response'.out = Return(TRUE))
       => ReadsThroughMerges(Val(parser'), response'.args.data, response'.args.merges)]_vars

\* a load with a merge succeeded: the cell of A-102 under the merge is empty
\* and reads the text of the cell above it
C16_Witness ==
  /\ response.op = "load_calendar" /\ response.out = Return(TRUE)
  /\ response.args.merges = <<MergeGuest>>
  /\ TextAt(Val(Val(parser).sheet_data), 2, 4) = <<>>
  /\ CellValue(Val(parser), 2, 4) = <<"G","u","e","s","t">>
  /\ ~ListedOn(Val(parser), 2, <<2025, 11, 25>>)

\* C17: for row indices r >= 0 and column indices c >= 0, the reference made
\* of the column letters of c and the decimal text of r + 1 is read back by
\* _cell_to_indices as (r, c)
C17_ReferenceRoundTrip ==
  Returned_("_col_index_to_letter") => response.out = <<response.args[1], response.args[2]>>

\* a reference of three letters and two digits was read back
C17_Witness ==
  /\ Returned_("_col_index_to_letter")
  /\ response.args = <<10, 702>>
  /\ response.out = <<10, 702>>
  /\ col_index_to_letter(702) = <<"A","A","A">>

\* the call of _parse_dates_from_start_cell returned and its anchor is a
\* reference to a row of the sheet
AnchorInSheet ==
  /\ Returned_("_parse_dates_from_start_cell")
  /\ cell_to_indices(response.args[2]) # None
  /\ cell_to_indices(response.args[2])[1] < Len(response.args[1])

AnchorRow == PyAt(response.args[1], cell_to_indices(response.args[2])[1])

AnchorCol == cell_to_indices(response.args[2])[2]

AnchorStartDate ==
  StartDate(response.args[1], cell_to_indices(response.args[2])[1], AnchorCol,
            response.args[3])

\* the first column from the anchor column on that is empty or past the row
WalkStop(row, col_idx) ==
  CHOOSE stop \in col_idx..Max(col_idx, Len(row)) :
    /\ stop >= Len(row) \/ Strip(At(row, stop)) = <<>>
    /\ \A c \in col_idx..(stop - 1) : c < Len(row) /\ Strip(At(row, c)) # <<>>

\* the columns before the stop that hold no weekday abbreviation
MappedCols(row, col_idx) ==
  {c \in col_idx..(WalkStop(row, col_idx) - 1) :
     Lower(Strip(At(row, c))) \notin day_abbrevs}

\* C18: the walk of strategy A maps exactly the cells from the anchor column
\* to the first empty cell or the end of the row that are no weekday
\* abbreviation; the k-th mapped column carries the start date plus k - 1
\* days, and nothing is mapped past the stop
C18_WalkStopsAndSkips ==
  (AnchorInSheet /\ AnchorStartDate # None) =>
    LET date_map == response.out[2]
        mapped == MappedCols(AnchorRow, AnchorCol)
    IN /\ (mapped = {}) <=> (response.out[1] = None)
       /\ {date_map[k][2] : k \in 1..Len(date_map)} = mapped
       /\ \A k \in 1..Len(date_map) :
            /\ Cardinality({c \in mapped : c < date_map[k][2]}) = k - 1
            /\ date_map[k][1] = IF k = 1 THEN AnchorStartDate
                                 ELSE AddDay(date_map[k - 1][1])

\* the walk from C1 of GridA passed a weekday abbreviation and stopped at
\* the empty cell before X
C18_Witness ==
  /\ AnchorInSheet
  /\ response.args = <<GridA, <<"C","1">>, <<>>>>
  /\ response.out = <<Some(0), <<<<<<2025, 11, 24>>, 2>>, <<<<2025, 11, 25>>, 4>>>>>>

\* the explicit start-date string as a date, None when there is no string
\* or it is no date
ExplicitDate ==
  IF response.args[3] = <<>> THEN None ELSE parse_date(response.args[3], 0, 0)

\* the text of the anchor cell as a date, None when the cell is outside the
\* row, empty, or no date
AnchorCellDate ==
  IF AnchorCol < Len(AnchorRow) /\ At(AnchorRow, AnchorCol) # <<>>
  THEN parse_date(Strip(At(AnchorRow, AnchorCol)), 0, 0)
  ELSE None

\* C19: in strategy A the dates start at the explicit start-date string when
\* it is a date, otherwise at the date of the anchor cell's text; when
\* neither is a date the strategy gives no header row and no dates, and
\* when one is a date and a column is mapped it gives a header row
C19_StartDateStringThenCell ==
  AnchorInSheet =>
    /\ (ExplicitDate = None /\ AnchorCellDate = None) => response.out = <<None, <<>>>>
    /\ ((ExplicitDate # None \/ AnchorCellDate # None)
          /\ MappedCols(AnchorRow, AnchorCol) # {}) => response.out[1] # None
    /\ response.out[1] # None =>
         response.out[2][1][1] = IF ExplicitDate # None THEN ExplicitDate
                                 ELSE AnchorCellDate

\* the start-date string is no date and the dates start at the date of the
\* anchor cell
C19_Witness ==
  /\ AnchorInSheet
  /\ response.args = <<GridA, <<"C","1">>, <<"s","o","o","n">>>>
  /\ ExplicitDate = None
  /\ response.out[1] = Some(0)
  /\ response.out[2][1] = <<<<2025, 11, 24>>, 2>>

\* C20: _cell_to_indices either rejects the reference or returns a row
\* index >= 0 and a column index >= 0, a row part of 0 is rejected, and
\* strategy A never gives a negative header row; a reference in lower case
\* reads like its upper-case form
C20_IndicesNeverNegative ==
  /\ Returned_("_cell_to_indices") =>
       /\ response.out = None \/ (response.out[1] >= 0 /\ response.out[2] >= 0)
       /\ response.out = cell_to_indices(Upper(response.args[1]))
  /\ Returned_("_parse_dates_from_start_cell") =>
       (response.out[1] = None \/ Val(response.out[1]) >= 0)

\* the step is a call of parser.load_calendar that got the sheet
SheetLoaded == response'.op = "load_calendar" /\ ~FetchFails(response'.args)

\* C21: with an anchor, given as parameter or in the environment, the
\* header and the dates are those of strategy A alone, also when it fails
\* and auto-detection would succeed; without an anchor they are those of
\* strategy B
C21_StrategyByAnchor ==
  [][SheetLoaded =>
       <<Val(parser').header_row_index, Val(parser').date_column_map>>
         = IF FinalDateStartCell(response'.args, environ) # <<>>
           THEN parse_dates_from_start_cell(response'.args.data,
                                            FinalDateStartCell(response'.args, environ),
                                            FinalDateStart(response'.args, environ))
           ELSE find_header_row(response'.args.data)]_vars

\* a load with an anchor outside the sheet failed on a sheet whose header
\* auto-detection finds
C21_Witness ==
  /\ response.op = "load_calendar" /\ response.out = Return(FALSE)
  /\ ~FetchFails(response.args)
  /\ response.args.date_start_cell # <<>>
  /\ find_header_row(response.args.data)[1] # None
  /\ Val(parser).header_row_index = None

\* the sheet of the call of _find_header_row that returned
HeaderData == response.args[1]

\* the first of the first 15 rows with two or more month names from column 2
TwoMonthRow(data) ==
  FirstOf({r \in 0..(Min(15, Len(data)) - 1) :
             Len(At(data, r)) >= 3 /\ MonthCount(At(data, r)) >= 2})

\* C22: the month row of strategy B is the first of the first 15 rows with
\* two or more cells, from column 2, that are a month name; a row with just
\* one such cell is not taken as the month row
C22_MonthRowNeedsTwoMonths ==
  Returned_("_find_header_row") =>
    /\ TwoMonthRow(HeaderData) # None => response.out.month_row_idx = TwoMonthRow(HeaderData)
    /\ response.out.month_row_idx # None =>
         MonthCount(At(HeaderData, Val(response.out.month_row_idx))) # 1

\* the cells of the row, from column 2, whose first number is a day 1..31
DayCells(row) == {c \in 2..(Len(row) - 1) : IsDayNumber(Strip(At(row, c)))}

\* row m + 2 exists and has at least 5 day numbers
DaysTwoBelow(data, m) ==
  m + 2 < Len(data) /\ Cardinality(DayCells(At(data, m + 2))) >= 5

WeekdayCells(row) ==
  {c \in 2..(Len(row) - 1) : Lower(Strip(At(row, c))) \in day_abbrevs}

\* the first of the first 20 rows with at least 5 day numbers and fewer
\* weekday abbreviations than day numbers
DayNumberRow(data) ==
  FirstOf({r \in 0..(Min(20, Len(data)) - 1) :
             /\ Cardinality(DayCells(At(data, r))) >= 5
             /\ Cardinality(WeekdayCells(At(data, r)))
                  < Cardinality(DayCells(At(data, r)))})

\* C24: when the first loop finds no month row, the header row is the first
\* of the first 20 rows with at least 5 day numbers and fewer weekday
\* abbreviations than day numbers, and the row above it, if any, is the
\* month row; no header row is found exactly when neither the rows below a
\* month row nor this search give one
C24_DayRowSearch ==
  Returned_("_find_header_row") =>
    /\ MonthRowIdx(HeaderData) = None =>
         /\ response.out.day_row_idx = DayNumberRow(HeaderData)
         /\ DayNumberRow(HeaderData) # None =>
              response.out.month_row_idx =
                IF Val(DayNumberRow(HeaderData)) > 0
                THEN Some(Val(DayNumberRow(HeaderData)) - 1) ELSE None
    /\ response.out.day_row_idx = None <=>
         /\ MonthRowIdx(HeaderData) = None
              \/ Val(MonthRowIdx(HeaderData)) + 1 >= Len(HeaderData)
         /\ DayNumberRow(HeaderData) = None

\* the header walk stands on a column of the day row
HeaderWalking ==
  /\ phase = "looping" /\ response.op = "_find_header_row"
  /\ response.out[1] < Len(response.args[1]) /\ response.out[1] < 500

DayCellHere == Strip(At(response.args[1], response.out[1]))

\* the column holds a day number and is no weekday label
AtDayColumn ==
  /\ HeaderWalking
  /\ DayCellHere # <<>> /\ Lower(DayCellHere) \notin day_abbrevs /\ IsDayNumber(DayCellHere)

DayHere == ToInt(FirstNumber(DayCellHere))

\* the month the month row names at the column or, failing that, in the
\* nearest column before it; 0 when it names none
NamedMonth ==
  MonthOr(MonthAt(response.args[2], response.out[1]),
          MonthBefore(response.args[2], response.out[1] - 1, Max(1, response.out[1] - 100)))

\* day 1 after a recorded day of 28 or more
DayResets == DayHere = 1 /\ response.out[4] >= 28

\* the month the walk has after the column when every column without a named
\* month and without a reset takes fallback
MonthWith(fallback) ==
  IF NamedMonth # 0 THEN NamedMonth
  ELSE IF DayResets THEN (response.out[2] % 12) + 1
  ELSE fallback

\* the year goes up by one on a reset from December to January only
YearAfter ==
  IF AtDayColumn /\ NamedMonth = 0 /\ DayResets /\ response.out[2] = 12
  THEN response.out[3] + 1 ELSE response.out[3]

\* the column is recorded under the date of the month and year the walk has
DateRecorded ==
  ValidDate(response'.out[3], response'.out[2], DayHere) =>
    /\ DictHas(response'.out[5], <<response'.out[3], response'.out[2], DayHere>>)
    /\ DictGet(response'.out[5], <<response'.out[3], response'.out[2], DayHere>>)
         = response.out[1]

\* C25 as stated: the month of a day-number column is the month the month row
\* names at the column, else the nearest month named before it, else on day 1
\* after a day of 28 or more the last known month plus one, else the month of
\* today; the year changes on the reset from December to January only.
C25_MonthOfDayColumn ==
  [][HeaderWalking =>
       /\ response'.out[3] = YearAfter
       /\ AtDayColumn => (response'.out[2] = MonthWith(NowMonth) /\ DateRecorded)]_vars

\* C25 amended: as above, but a column without a named month and without a
\* reset keeps the last known month of the walk; the month of today is taken
\* only when the walk knows no month yet.
C25_MonthOfDayColumnKept ==
  [][HeaderWalking =>
       /\ response'.out[3] = YearAfter
       /\ AtDayColumn =>
            /\ response'.out[2]
                 = MonthWith(IF response.out[2] # 0 THEN response.out[2] ELSE NowMonth)
            /\ DateRecorded]_vars

\* a day column after the reset from December to January: no month is named,
\* the day is no reset, the walk is in January of the next year
C25_Witness ==
  /\ AtDayColumn /\ NamedMonth = 0 /\ ~DayResets
  /\ response.out[2] = 1 /\ response.out[3] = NowYear + 1
  /\ DictHas(response.out[5], <<NowYear + 1, 1, 1>>)

\* later dates stand in later columns
Increasing(date_map) ==
  \A i, j \in 1..Len(date_map) :
    DateLT(date_map[i][1], date_map[j][1]) => date_map[i][2] < date_map[j][2]

\* C26: the date index either strategy builds is strictly increasing in
\* column order: of two indexed dates the later one has the greater column,
\* for a header that runs from December into January too.
C26_DateIndexIncreasing ==
  phase = "returned" =>
    /\ response.op = "_find_header_row" => Increasing(response.out.date_column_map)
    /\ response.op = "_parse_dates_from_start_cell" => Increasing(response.out[2])

\* the words of the text given to the date token parser
DateWords == Split(Strip(response.args[1]), " ")

\* the months its words name, the days and the years they hold
MonthsNamed == {parse_month_name(DateWords[i]) : i \in 1..Len(DateWords)} \ {0}

DaysNamed == {ToInt(DateWords[i]) : i \in {w \in 1..Len(DateWords) : MatchD(DateWords[w])}}

YearsNamed ==
  {ToInt(DateWords[i]) :
     i \in {w \in 1..Len(DateWords) : AllDigits(DateWords[w]) /\ Len(DateWords[w]) = 4}}

YearNamed ==
  IF YearsNamed # {} THEN CHOOSE y \in YearsNamed : TRUE
  ELSE IF response.args[3] # 0 THEN response.args[3] ELSE NowYear

\* C27: a text that names a month, in Russian or English, next to a day of one
\* or two digits is parsed as the date of that month and that day, in the year
\* of a 4-digit number of the text or else the default year.
C27_NamedMonthDate ==
  (/\ phase = "returned" /\ response.op = "_parse_date"
   /\ MonthsNamed # {} /\ DaysNamed # {}) =>
    \E month \in MonthsNamed, day \in DaysNamed : response.out = <<YearNamed, month, day>>

\* the rows the scan of get_available_rooms has taken so far
RowsTaken ==
  {At(Val(Val(parser).sheet_data), response.out[2][i]) : i \in 1..Len(response.out[2])}

\* the row is no room: a cell of the two is missing or empty after trimming,
\* the two are a pair of header labels, or one of them is a legend keyword
NotARoom(row) ==
  \/ Len(row) < 2
  \/ Category(row) = <<>> \/ RoomNumber(row) = <<>>
  \/ Lower(Category(row)) \in category_labels /\ Lower(RoomNumber(row)) \in room_labels
  \/ Lower(Category(row)) \in legend_keywords
  \/ Lower(RoomNumber(row)) \in legend_keywords

\* C28: a row whose category or room number is empty after trimming, or whose
\* category and room cells are header labels or a legend keyword, never
\* appears in the result of the listing.
C28_NonRoomRowsSkipped ==
  response.op = "get_available_rooms" => \A row \in RowsTaken : ~NotARoom(row)

\* the index a loop stands at, and the index where it has to stop at the latest
LoopIdx == response.out[1]

LoopLimit ==
  IF response.op = "_find_header_row" THEN Max(2, Min(Len(response.args[1]), 500))
  ELSE IF response.op = "_parse_dates_from_start_cell"
  THEN Max(response.args[2], Len(response.args[1]))
  ELSE Len(Val(Val(parser).sheet_data))

\* the walk from the anchor has met no empty cell before the column it stands
\* at, and where it ended the row ends or the cell is empty
AnchorWalkToFirstEmpty ==
  response.op = "_parse_dates_from_start_cell" =>
    /\ \A c \in response.args[2]..(LoopIdx - 1) : Strip(At(response.args[1], c)) # <<>>
    /\ phase = "returned" =>
         \/ LoopIdx >= Len(response.args[1])
         \/ Strip(At(response.args[1], LoopIdx)) = <<>>

\* C29: the loops of a load and of a query end on every grid: each pass moves
\* one column or one row on, the walk from the anchor ends at the first empty
\* cell or at the end of its row, the walk of the day row goes no further
\* than min(length of the row, 500), a row scan no further than the last row.
C29_LoopsTerminate ==
  /\ [][phase' = "looping" => LoopIdx' = LoopIdx + 1]_vars
  /\ [](LoopIdx <= LoopLimit /\ AnchorWalkToFirstEmpty)
  /\ <>(phase = "returned")

\* the walk of a day row of more than 500 cells has ended at column 500
C29_Witness ==
  /\ phase = "returned" /\ response.op = "_find_header_row"
  /\ Len(response.args[1]) > 500 /\ LoopIdx = 500

\* C30: the listing and the check of one room agree. After a check of room r
\* on day d: when the listing of d..d without filter holds a room r, the
\* check said free; when the check said free and the row it read is a room
\* row with a category, the listing holds that room.
C30_ListingAndCheckAgree ==
  RoomChecked =>
    /\ (\E row_idx \in RowsOfRoom(Val(parser), response.args[1]) :
          ListedOn(Val(parser), row_idx, response.args[2]))
        => response.out.value = TRUE
    /\ (/\ response.out.value = TRUE
        /\ IsRoomRow(At(Val(Val(parser).sheet_data),
                        FirstRowOfRoom(Val(parser), response.args[1]))))
        => ListedOn(Val(parser), FirstRowOfRoom(Val(parser), response.args[1]),
                    response.args[2])
====
